---- MODULE Spec2Model ----
(***************************************************************************)
(* A model of slurm-proxy: the two-phase REST submission pipeline          *)
(* (app/task_submission.py), the job registry and the polling state        *)
(* machine (app/task_monitoring.py), the SLURM REST client                 *)
(* (app/task_slurm_rest.py) and the notification dispatch                  *)
(* (app/task_notification.py).                                             *)
(*                                                                         *)
(* Request handlers run on Flask's threaded server, the poller on the      *)
(* APScheduler background thread.  Every access to MongoDB or to SLURM is  *)
(* one step of its thread, so that the steps of different threads          *)
(* interleave exactly where the code leaves the interpreter to do I/O.     *)
(***************************************************************************)
EXTENDS Integers, Sequences, FiniteSets, TLC

(***************************************************************************)
(* Bounds of the model.                                                    *)
(***************************************************************************)
NumHandlers == 2      \* request-handling threads
MaxJobId == 3         \* job ids SLURM hands out
MaxRecords == 2       \* inserts into the jobs collection
MaxTime == 1          \* clock readings 0..MaxTime
MaxRequests == 2      \* requests the server receives
MaxTicks == 2         \* runs of the poller's job
MaxApiRequests == 3   \* requests received, DELETE and GET included
MaxDue == 3           \* run times that pass before the scheduler processes the job
MaxSkipped == 3       \* skipped and missed runs counted
MaxSchedRuns == 4     \* calls of poll_slurm_jobs by the scheduler's executor
MaxScanTime == 2      \* clock readings 0..MaxScanTime where records age out of the scan
NumConstructors == 3  \* threads that call the constructor of a connection class
MaxClock == 7         \* readings 0..MaxClock of the clock the token is minted by

(***************************************************************************)
(* Program constants (app/constants.py).                                   *)
(***************************************************************************)
BAD_SLURM_JOB_ID == -1
SLURM_TEST_JOB_ID == 123
SLURM_STATE_UNKNOWN == "UNKNOWN"
SLURM_STATE_END_STATES ==
    {"COMPLETED", "FAILED", "CANCELLED", "SUSPENDED", "NODE_FAIL", "TIMEOUT", "DEADLINE"}
SLURM_STATES_ALLOWED ==
    {"COMPLETED", "COMPLETING", "FAILED", "PENDING", "PREEMPTED", "RUNNING",
     "SUSPENDED", "STOPPED", "TIMEOUT", "CANCELLED", "NODE_FAIL", "BOOT_FAIL",
     "OUT_OF_MEMORY", "RESV_DEL_HOLD", "REQUEUE_FED", "REQUEUE_HOLD", "RESIZING",
     "REVOKED", "SIGNALING", "SPECIAL_EXIT", "STAGE_OUT", "DEADLINE"}
SLURM_REST_GENERIC_USERNAME == "generic"
SLURM_REST_JWT_EXPIRATION_TIME == 10
\* MONGODB_MONITOR_JOB_CREATED_AT_MAX_AGE: imported by task_monitoring.py, in clock units
MONGODB_MONITOR_JOB_CREATED_AT_MAX_AGE == 1
\* updated_at of a record that was never updated (None in the code)
NoTime == -1

\* {} and the test for a key of a dict
EmptyDict == [k \in {} |-> 0]
HasKey(d, k) == k \in DOMAIN d

\* JSON null, None once parsed: a value that is no dict and has no .get
JsonNull == [null |-> TRUE]

\* NotificationMethod: an Enum member is not equal to its .value string, so a
\* method is a tagged value: the member itself, or a plain string from JSON.
EnumMember(name) == [enum |-> TRUE, tag |-> name]
Str(s) == [enum |-> FALSE, tag |-> s]
NotificationMethodValues == {"email", "gmail", "rabbitmq", "slack", "test"}

\* TASK_METADATA as the module defines it
TASK_METADATA_INIT ==
    [echo_hello_world |->
        [cmd |-> <<"echo">>,
         default_params |-> <<>>,
         methods |-> <<EnumMember("test"), EnumMember("email"),
                       EnumMember("slack"), EnumMember("rabbitmq")>>,
         params |-> [test |-> EmptyDict,
                     email |-> [sender |-> "areynolds@altius.org",
                                recipient |-> "areynolds@altius.org",
                                subject |-> "Hello World", body |-> "Hello World!"],
                     slack |-> [msg |-> "Hello World!", channel |-> "general"],
                     rabbitmq |-> [queue |-> "hello_world_queue", exchange |-> "",
                                   routing_key |-> "hello_world", body |-> "Hello World!"]]],
     generic_task |->
        [cmd |-> <<>>,
         default_params |-> <<>>,
         methods |-> <<EnumMember("test")>>,
         params |-> [test |-> EmptyDict]]]

(***************************************************************************)
(* Inputs.                                                                 *)
(***************************************************************************)
Handlers == 1..NumHandlers
JobIds == 1..MaxJobId

Dirs == [parent |-> "/h/a/p", input |-> "/h/a/i", output |-> "/h/a/o", error |-> "/h/a/e"]
SlurmOpts == [partition |-> "q", cpus_per_task |-> 1, mem |-> 100, time |-> 60,
              output |-> "o.txt", error |-> "e.txt"]
Task(u, n) == [uuid |-> u, name |-> n, username |-> "alice", cwd |-> "/h/a",
               dirs |-> Dirs, slurm |-> SlurmOpts]

\* task objects a client posts
UUIDs == {"u1", "u2"}
Tasks == {Task("u1", "echo_hello_world"), [uuid |-> "u1", name |-> "echo_hello_world"]}

\* state strings SLURM reports in state.current[0]
RawStates == {"RUNNING", "COMPLETED", "WEIRD"}

\* answers of POST slurm/vX/job/submit/: status and JSON body
SubmitReplies(id) ==
    {[status |-> 200, body |-> [job_id |-> id]],
     [status |-> 200, body |-> [result |-> 0]],
     [status |-> 200, body |-> EmptyDict],
     [status |-> 500, body |-> [errors |-> 1]]}

AllSubmitReplies == UNION {SubmitReplies(id) : id \in JobIds}

\* answers of GET slurmdb/vX/job/<id>/: status and the states of body.jobs
LookupReplies ==
    {[status |-> 404, jobs |-> <<>>], [status |-> 200, jobs |-> <<>>]}
    \cup {[status |-> 200, jobs |-> <<s>>] : s \in RawStates}

(***************************************************************************)
(* app/task_submission.py: validation, command and payloads.               *)
(***************************************************************************)
is_task_valid(task) ==
    \A k \in {"name", "username", "cwd", "uuid", "slurm", "dirs"} : HasKey(task, k)

\* the command as its list of words (the code joins them with single spaces);
\* <<>> is the None the code returns
define_task_cmd(catalog, task_name, task_cmd, additional_task_params) ==
    IF task_name \notin DOMAIN catalog THEN <<>>
    ELSE LET cmd0 == IF task_cmd # <<>> THEN task_cmd ELSE catalog[task_name].cmd
         IN  IF cmd0 = <<>> THEN <<>>
             ELSE cmd0 \o catalog[task_name].default_params \o additional_task_params

\* the keys the payload builders read inside their try block (KeyError -> None)
PayloadKeysPresent(task, dirkeys) ==
    /\ \A k \in {"dirs", "slurm", "username", "cwd", "name", "uuid"} : HasKey(task, k)
    /\ dirkeys \subseteq DOMAIN task.dirs
    /\ HasKey(task.slurm, "partition")

get_preliminary_slurm_rest_payload_for_task(task) ==
    IF ~PayloadKeysPresent(task, {"parent", "input", "output", "error"})
    THEN [ok |-> FALSE]
    ELSE [ok |-> TRUE,
          username |-> task.username,
          job |-> [script |-> <<"mkdir -p", task.dirs.parent, "mkdir -p", task.dirs.input,
                                "mkdir -p", task.dirs.output, "mkdir -p", task.dirs.error>>,
                   name |-> <<"hpc-proxy-preliminary", task.name, task.uuid, "preliminary">>,
                   partition |-> task.slurm.partition,
                   cpus_per_task |-> 1,
                   memory_per_cpu |-> 100,
                   time_limit |-> 100,
                   standard_output |-> "/dev/null",
                   standard_error |-> "/dev/null"]]

\* a faulty variant of the main payload: the dependency names the job after the preliminary one
get_main_payload_wrong_dependency(catalog, task, preliminary_job_id) ==
    [ok |-> TRUE,
     username |-> task.username,
     job |-> [name |-> <<"hpc-proxy", task.name, task.uuid, "main">>,
              dependency |-> <<"afterok", preliminary_job_id + 1>>]]

get_main_slurm_rest_payload_for_task(catalog, task, preliminary_job_id) ==
    IF ~(/\ PayloadKeysPresent(task, {"output", "error"})
         /\ \A k \in {"cpus_per_task", "mem", "time", "output", "error"} :
                HasKey(task.slurm, k))
    THEN [ok |-> FALSE]
    ELSE [ok |-> TRUE,
          username |-> task.username,
          job |-> [script |-> define_task_cmd(catalog, task.name,
                                  IF HasKey(task, "cmd") THEN task.cmd ELSE <<>>,
                                  IF HasKey(task, "params") THEN task.params ELSE <<>>),
                   name |-> <<"hpc-proxy", task.name, task.uuid, "main">>,
                   partition |-> task.slurm.partition,
                   cpus_per_task |-> task.slurm.cpus_per_task,
                   memory_per_cpu |-> task.slurm.mem,
                   time_limit |-> task.slurm.time,
                   standard_output |-> <<task.dirs.output, task.slurm.output>>,
                   standard_error |-> <<task.dirs.error, task.slurm.error>>,
                   dependency |-> <<"afterok", preliminary_job_id>>]]

(***************************************************************************)
(* app/task_slurm_rest.py: token, POST submit and run_query.               *)
(***************************************************************************)
\* the environment's SLURM_JWT_HS256_KEY_BASE64 as a deployment sets it
SLURM_JWT_HS256_KEY_BASE64 == "c2VjcmV0"

\* a value of the variable made of white space only: app() and create_app test
\* the raw value (not empty, so the process starts), the token code strips it
BlankKey == " "

\* os.environ["SLURM_JWT_HS256_KEY_BASE64"] of the running process
VARIABLE environ

\* str.strip() on the values the variable takes here
strip(s) == IF s = BlankKey THEN "" ELSE s

\* "" is the None returned when the variable is unset or empty
get_slurm_rest_jwt_private_key_via_env == strip(environ)

\* a variant of the token code that signs with whatever key it is given
get_token_without_key_test(username, priv_key) ==
    [ok |-> TRUE,
     sun |-> IF username = "" THEN SLURM_REST_GENERIC_USERNAME ELSE username]

\* [ok |-> FALSE] is the None of a missing key
get_slurm_rest_jwt_token_for_username(username, priv_key) ==
    IF priv_key = "" THEN [ok |-> FALSE]
    ELSE [ok |-> TRUE,
          sun |-> IF username = "" THEN SLURM_REST_GENERIC_USERNAME ELSE username]

\* None on a status other than 200, else (response.json(), query_url)
query_slurm_post_endpoint_via_requests(reply) ==
    IF reply.status # 200 THEN [none |-> TRUE, json |-> EmptyDict]
    ELSE [none |-> FALSE, json |-> reply.body]

\* a Flask response, or the exception the call ends with
Response(status, body) == [exc |-> "", status_code |-> status, response |-> body]
Raise(e) == [exc |-> e, status_code |-> 500, response |-> EmptyDict]

\* query_result, query_url = query_functor(...) cannot unpack None: TypeError
run_query(token, query_out) ==
    IF ~token.ok THEN Response(400, EmptyDict)
    ELSE IF query_out.none THEN Raise("TypeError")
    ELSE IF DOMAIN query_out.json = {} THEN Response(400, EmptyDict)
    ELSE Response(200, query_out.json)

\* the request is sent unless no token could be minted
SendsRequest(username) ==
    get_slurm_rest_jwt_token_for_username(username, get_slurm_rest_jwt_private_key_via_env).ok

submit_job_via_params(job, reply) ==
    run_query(get_slurm_rest_jwt_token_for_username(job.username,
                  get_slurm_rest_jwt_private_key_via_env),
              query_slurm_post_endpoint_via_requests(reply))

\* a faulty variant: a response without job_id is taken for an accepted job
JobIdOfAnyResponse(response) ==
    IF HasKey(response.response, "job_id") THEN response.response.job_id
    ELSE SLURM_TEST_JOB_ID

\* response["response"].get("job_id", BAD_SLURM_JOB_ID)
JobIdOf(response) ==
    IF HasKey(response.response, "job_id") THEN response.response.job_id
    ELSE BAD_SLURM_JOB_ID

(***************************************************************************)
(* app/task_monitoring.py: live job state over REST.                       *)
(***************************************************************************)
\* a faulty variant of the normalisation: the reported string is taken as it is
RestJobStateUnchecked(raw) == raw

\* SlurmJobSummary starts UNKNOWN and set_job_state only takes a known state
RestJobState(raw) ==
    IF raw \notin SLURM_STATES_ALLOWED THEN SLURM_STATE_UNKNOWN ELSE raw

\* the lookup goes to SLURM unless the id is falsy or the test id
LookupCallsRest(slurm_job_id) ==
    slurm_job_id # 0 /\ slurm_job_id # SLURM_TEST_JOB_ID

\* (content, status code) of the job query: the code is 400 and nothing is sent
\* when no token could be minted, else it is slurmrestd's status
get_job_info_for_job_id_via_params(username, reply) ==
    IF ~SendsRequest(username) THEN [code |-> 400, jobs |-> <<>>]
    ELSE [code |-> reply.status, jobs |-> reply.jobs]

\* kind "none": None; "dict": SLURM_TEST_JOB_STATUS, a plain dict; "summary": a SlurmJobSummary
get_current_slurm_job_metadata_by_slurm_job_id_via_rest(slurm_job_id, slurm_username, reply) ==
    IF slurm_job_id = 0 THEN [kind |-> "none", job_state |-> SLURM_STATE_UNKNOWN]
    ELSE IF slurm_job_id = SLURM_TEST_JOB_ID THEN [kind |-> "dict", job_state |-> "COMPLETED"]
    ELSE IF get_job_info_for_job_id_via_params(slurm_username, reply).code # 200
         THEN [kind |-> "none", job_state |-> SLURM_STATE_UNKNOWN]
    ELSE IF reply.jobs = <<>> THEN [kind |-> "none", job_state |-> SLURM_STATE_UNKNOWN]
    ELSE [kind |-> "summary", job_state |-> RestJobState(reply.jobs[1])]

(***************************************************************************)
(* The jobs collection of the monitor database.  A document is what        *)
(* MonitorJobSummary.to_dict() gives, with the _id MongoDB adds (rid).     *)
(***************************************************************************)
MonitorJobSummary(slurm_username, slurm_job_id, slurm_job_state, task, t) ==
    [slurm_username |-> slurm_username,
     slurm_job_id |-> slurm_job_id,
     slurm_job_state |-> slurm_job_state,
     task |-> task,
     created_at |-> t,
     updated_at |-> NoTime]

Document(job, rid) ==
    [rid |-> rid,
     slurm_username |-> job.slurm_username,
     slurm_job_id |-> job.slurm_job_id,
     slurm_job_state |-> job.slurm_job_state,
     task |-> job.task,
     created_at |-> job.created_at,
     updated_at |-> job.updated_at]

\* find_one: the first document that matches, in insertion order
FirstOf(S) == CHOOSE r \in S : \A q \in S : r.rid <= q.rid

ById(coll, slurm_job_id) == {r \in coll : r.slurm_job_id = slurm_job_id}
ByUuid(coll, uuid) == {r \in coll : HasKey(r.task, "uuid") /\ r.task.uuid = uuid}

\* a cursor's documents in insertion order
RECURSIVE InOrder(_)
InOrder(S) == IF S = {} THEN <<>> ELSE <<FirstOf(S)>> \o InOrder(S \ {FirstOf(S)})

\* get_job_metadata_from_monitor_db_by_query({'task.uuid': uuid}): the documents found
get_job_metadata_from_monitor_db_by_query(coll, uuid) == ByUuid(coll, uuid)

\* a faulty variant of the duplicate test: the query result is ignored
TaskUuidExistsIgnored(job_metadata) == FALSE

\* submit_slurm_job_via_rest: if job_metadata: the uuid is taken
TaskUuidExists(job_metadata) == job_metadata # {}

\* the registry holds a document with the slurm_job_id or with the task's uuid
Registered(coll, slurm_job_id, task) ==
    \/ ById(coll, slurm_job_id) # {}
    \/ HasKey(task, "uuid") /\ ByUuid(coll, task.uuid) # {}

\* add_job_to_monitor_db: neither find_one finds a document
NotYetMonitored(coll, slurm_job_id, task) ==
    ById(coll, slurm_job_id) = {} /\ ByUuid(coll, task.uuid) = {}

\* a faulty variant of update_one: an upsert, which inserts a document when
\* none matches
update_one_upsert(coll, slurm_job_id, new_slurm_job_state, t) ==
    IF ById(coll, slurm_job_id) = {}
    THEN coll \cup {[Document(MonitorJobSummary("", slurm_job_id, new_slurm_job_state,
                                                EmptyDict, NoTime), MaxRecords + 1)
                       EXCEPT !.updated_at = t]}
    ELSE LET r == FirstOf(ById(coll, slurm_job_id))
         IN  (coll \ {r}) \cup {[r EXCEPT !.slurm_job_state = new_slurm_job_state,
                                          !.updated_at = t]}

\* a faulty variant of update_one: the write sets created_at as well
update_one_and_created_at(coll, slurm_job_id, new_slurm_job_state, t) ==
    IF ById(coll, slurm_job_id) = {} THEN coll
    ELSE LET r == FirstOf(ById(coll, slurm_job_id))
         IN  (coll \ {r}) \cup {[r EXCEPT !.slurm_job_state = new_slurm_job_state,
                                          !.updated_at = t, !.created_at = t]}

\* update_one({"slurm_job_id": id}, {"$set": {slurm_job_state, updated_at}})
update_one(coll, slurm_job_id, new_slurm_job_state, t) ==
    IF ById(coll, slurm_job_id) = {} THEN coll
    ELSE LET r == FirstOf(ById(coll, slurm_job_id))
         IN  (coll \ {r}) \cup {[r EXCEPT !.slurm_job_state = new_slurm_job_state,
                                          !.updated_at = t]}

\* poll_slurm_jobs: created_at within [now - max age, now]
InScanWindow(r, t) ==
    r.created_at <= t /\ r.created_at >= t - MONGODB_MONITOR_JOB_CREATED_AT_MAX_AGE

\* a faulty variant of the poller's test for a finished job: nothing counts as finished
IsEndStateNever(monitor_db_job_state) == FALSE

\* poll_slurm_jobs: if monitor_db_job_state in SLURM_STATE_END_STATES: continue
IsEndState(monitor_db_job_state) == monitor_db_job_state \in SLURM_STATE_END_STATES

\* monitor_new_slurm_job: the state to store is the one SLURM reports
monitor_new_slurm_job_state(slurm_job_status_metadata) ==
    IF slurm_job_status_metadata.kind # "none"
       \/ slurm_job_status_metadata.job_state \in SLURM_STATE_END_STATES
    THEN slurm_job_status_metadata.job_state
    ELSE SLURM_STATE_UNKNOWN

\* a faulty variant of the poller's test: no state is worth a notification
NotifiesOnNothing(new_slurm_job_state) == FALSE

\* poll_slurm_jobs: if new_slurm_job_state in SLURM_STATE_END_STATES: process_job_state_change
NotifiesOn(new_slurm_job_state) == new_slurm_job_state \in SLURM_STATE_END_STATES

\* poll_slurm_jobs: the state to write
poll_new_slurm_job_state(current_slurm_job_state) ==
    IF current_slurm_job_state \in SLURM_STATES_ALLOWED THEN current_slurm_job_state
    ELSE SLURM_STATE_UNKNOWN

(***************************************************************************)
(* app/task_notification.py and process_job_state_change.                  *)
(***************************************************************************)
\* NotificationCallbackFactory.create_callback_for_method: the method is compared
\* with each NotificationMethod.X.value; anything else raises ValueError
create_callback_for_method(method) ==
    IF ~method.enum /\ method.tag \in NotificationMethodValues
    THEN [exc |-> "", callback |-> method.tag]
    ELSE [exc |-> "ValueError", callback |-> ""]

\* method not in task_notification_methods
MethodInList(method, methods) == \E i \in 1..Len(methods) : methods[i] = method

\* the merge of task["notification"] into the catalog's own list and dict
\* (task_notification_methods is the catalog's list, not a copy)
RECURSIVE MergeCustom(_, _, _)
MergeCustom(entry, custom, i) ==
    IF i > Len(custom.methods) THEN entry
    ELSE LET m == custom.methods[i]
         IN  IF ~MethodInList(Str(m), entry.methods) /\ HasKey(custom.params, m)
             THEN MergeCustom(
                    [entry EXCEPT !.methods = Append(@, Str(m)),
                                  !.params = [k \in DOMAIN @ \cup {m} |->
                                                IF k = m THEN custom.params[m] ELSE @[k]]],
                    custom, i + 1)
             ELSE MergeCustom(entry, custom, i + 1)

\* the keys a method's notify call reads outside its try block
KeysReadUnguarded(callback, params) ==
    IF callback \in {"email", "gmail"}
    THEN HasKey(params, "email")
         /\ {"sender", "recipient", "subject"} \subseteq DOMAIN params.email
    ELSE TRUE

\* the loop over the methods: the exception it ends with, its return value and
\* the methods whose notify was called
RECURSIVE NotifyEach(_, _, _, _)
NotifyEach(methods, params, i, sent) ==
    IF i > Len(methods) THEN [exc |-> "", ret |-> TRUE, sent |-> sent]
    ELSE LET c == create_callback_for_method(methods[i])
         IN  IF c.exc # "" THEN [exc |-> c.exc, ret |-> FALSE, sent |-> sent]
             ELSE IF ~KeysReadUnguarded(c.callback, params)
                  THEN [exc |-> "KeyError", ret |-> FALSE, sent |-> sent]
             ELSE NotifyEach(methods, params, i + 1, Append(sent, c.callback))

\* process_job_state_change(slurm_job_id, old, new): what it returns or raises, the
\* document it notifies for (rid, 0 for none), the methods it goes through, those
\* whose notify it called, and the catalog it leaves
process_job_state_change(coll, catalog, slurm_job_id, new_slurm_job_state, dbok) ==
    IF new_slurm_job_state \notin SLURM_STATE_END_STATES
    THEN [exc |-> "", ret |-> TRUE, rid |-> 0, sent |-> <<>>, methods |-> <<>>,
          catalog |-> catalog]
    ELSE IF ~dbok
    THEN [exc |-> "", ret |-> FALSE, rid |-> 0, sent |-> <<>>, methods |-> <<>>,
          catalog |-> catalog]
    ELSE IF ById(coll, slurm_job_id) = {}
    THEN [exc |-> "", ret |-> TRUE, rid |-> 0, sent |-> <<>>, methods |-> <<>>,
          catalog |-> catalog]
    ELSE LET result == FirstOf(ById(coll, slurm_job_id))
             task == result.task
         IN  IF ~HasKey(task, "name") \/ task.name \notin DOMAIN catalog
             THEN [exc |-> "KeyError", ret |-> FALSE, rid |-> result.rid,
                   sent |-> <<>>, methods |-> <<>>, catalog |-> catalog]
             ELSE LET entry == IF HasKey(task, "notification")
                               THEN MergeCustom(catalog[task.name], task.notification, 1)
                               ELSE catalog[task.name]
                      out == NotifyEach(entry.methods, entry.params, 1, <<>>)
                  IN  [exc |-> out.exc, ret |-> out.ret, rid |-> result.rid,
                       sent |-> out.sent, methods |-> entry.methods,
                       catalog |-> [catalog EXCEPT ![task.name] = entry]]

(***************************************************************************)
(* State.                                                                  *)
(***************************************************************************)
VARIABLES
    jobs,           \* the documents of the jobs collection
    nextRid,        \* the _id of the next document inserted
    slurmNextId,    \* the job id SLURM gives its next accepted job
    now,            \* the clock
    TASK_METADATA,  \* the task catalog (a module-level dict)
    req,            \* per handler thread: the request it serves and its locals
    poll,           \* the poller thread: its position in poll_slurm_jobs and its locals
    dispatched,     \* per document: calls of process_job_state_change that found it (0, 1, 2 = many)
    requests,       \* requests received so far
    ticks,          \* runs of the poller's job so far
    sched,          \* the scheduler's view of its one job (poll_slurm_jobs)
    mint,           \* a call of get_slurm_rest_jwt_token_for_username and the clock it reads
    upd,            \* the last call of update_job_state_in_monitor_db made on its own
    conn            \* the class MongoDBConnection / SSHClientConnection and the threads in __new__

vars == <<conn, environ, sched, jobs, nextRid, slurmNextId, now, TASK_METADATA, req, poll, dispatched,
          requests, ticks, mint, upd>>

\* the connection class before any constructor call:
\*   instance        cls._instance: "none" (None), "bare" (the object __new__ of the
\*                   superclass made, without attributes), "client" (_client is set),
\*                   "ready" (_monitor_db, or _ssh_client, is set as well)
\*   lock            the thread holding cls._lock (0: nobody)
\*   clients         the clients created so far (MongoClient(...), paramiko.SSHClient())
\*   pc              where each thread is in __new__
\*   got             what each constructor call returned, as it was at the return
ConnThreads == 1..NumConstructors
ConnIdle ==
    [instance |-> "none", lock |-> 0, clients |-> 0,
     pc |-> [t \in ConnThreads |-> "start"],
     got |-> [t \in ConnThreads |-> "nothing"]]

\* a handler thread between requests, and the locals of the two POST handlers:
\*   kind, pc        the route and the position in its code
\*   task            the task of the request
\*   slurm_job_id, slurm_username   of the MonitorJobSummary post() builds
\*   state           slurm_job_state in monitor_new_slurm_job / add_job_to_monitor_db
\*   created_at      of the MonitorJobSummary add_job_to_monitor_db builds
\*   result          what add_job_to_monitor_db returned
\*   preliminary_job_id, main_payload, submit_job_id   locals of the submission
\*   status, body    the response
\*   rest            the requests this handler sent to SLURM, in order
\*   dup             the task's uuid was in the registry when the request was checked
\*   inserted        the _id of the document this request inserted (0: none)
\*   prelim_reply, main_reply   the job ids SLURM answered with (BAD_SLURM_JOB_ID: none)
\*   sent_dependency  the dependency field of the main payload as it was sent
\*   invalid         POST /submit: the body has no task, the task lacks a required key,
\*                   names no task of the catalog or has no command
\*   present         the slurm_job_id or the task's uuid was in the registry when the
\*                   registration began (POST /monitor arrived, post() called
\*                   monitor_new_slurm_job)
\*   expect          GET: the submissions of the uuid that were answered with 200 and
\*                   whose answer a handler still holds when the GET arrives
\*   suns            the sun claims of the tokens this handler's requests to SLURM carried
\*   found           DELETE: the registry held a document for the id when it was asked
\*   scancel         DELETE: how the scancel command went ("none": not issued)
\*   removed         DELETE: the _id of the document find_one_and_delete removed (0: none)
\*   in_ssh          the thread is inside ssh_client_exec: connect was called on the
\*                   shared client and exec_command has not returned
NoJob == MonitorJobSummary("", BAD_SLURM_JOB_ID, SLURM_STATE_UNKNOWN, EmptyDict, 0)
Idle ==
    [kind |-> "none", pc |-> "idle", task |-> EmptyDict,
     slurm_job_id |-> BAD_SLURM_JOB_ID, slurm_username |-> "",
     state |-> SLURM_STATE_UNKNOWN, created_at |-> 0, result |-> FALSE,
     preliminary_job_id |-> BAD_SLURM_JOB_ID, main_payload |-> [ok |-> FALSE],
     submit_job_id |-> BAD_SLURM_JOB_ID,
     status |-> 0, body |-> EmptyDict,
     rest |-> <<>>, dup |-> FALSE, inserted |-> 0,
     prelim_reply |-> BAD_SLURM_JOB_ID, main_reply |-> BAD_SLURM_JOB_ID,
     sent_dependency |-> <<>>,
     invalid |-> FALSE, present |-> FALSE, expect |-> {}, suns |-> {},
     found |-> FALSE, scancel |-> "none", removed |-> 0, in_ssh |-> FALSE]

\* the handler returns a response (an exception that leaves the view is Flask's 500)
\* and its locals are gone; what the request did stays on record
Respond(r, status, body) ==
    [Idle EXCEPT !.kind = r.kind, !.pc = "done", !.status = status, !.body = body,
                 !.task = IF r.kind = "submit" /\ status = 200 THEN r.task ELSE EmptyDict,
                 !.expect = r.expect, !.suns = r.suns,
                 !.rest = r.rest, !.dup = r.dup, !.inserted = r.inserted,
                 !.prelim_reply = r.prelim_reply, !.main_reply = r.main_reply,
                 !.sent_dependency = r.sent_dependency,
                 !.invalid = r.invalid, !.present = r.present,
                 !.found = r.found, !.scancel = r.scancel, !.removed = r.removed]

\* the poller between ticks, and the locals of poll_slurm_jobs:
\*   cursor          the documents still to visit
\*   job             the document being handled, new_state the state to write for it
\*   frozen          the documents that were in an end state when the tick read the collection
\*   looked          the documents this tick asked SLURM about
\*   ended           <<rid, s>>: this tick found document rid, not in an end state, live in end state s
\*   calls           the documents this tick called process_job_state_change for, in order
\*   raw             the state string SLURM reported for job ("": none yet)
\*   wrote           update_one for job reached MongoDB
\*   track           the two sets below are kept (a history of the lookups)
\*   missed          the documents whose lookup yielded nothing in this tick
\*   retry           the documents whose lookup yielded nothing in the tick before
\*   at              the clock reading the scan's query was built with (kept with track)
PollIdle ==
    [pc |-> "idle", cursor |-> <<>>, job |-> Document(NoJob, 0),
     new_state |-> SLURM_STATE_UNKNOWN,
     frozen |-> {}, looked |-> {}, ended |-> {}, calls |-> <<>>,
     raw |-> "", wrote |-> FALSE,
     track |-> FALSE, missed |-> {}, retry |-> {}, at |-> NoTime]

\* the tick is over (or an exception left poll_slurm_jobs): its locals are gone
Ended(p) ==
    [PollIdle EXCEPT !.ended = p.ended, !.calls = p.calls,
                     !.track = p.track, !.missed = p.missed, !.retry = p.retry,
                     !.looked = IF p.track THEN p.looked ELSE {}]

\* faulty variants of the configuration: overlapping runs allowed, and every
\* run time that was missed run after the fact
instances_not_limited == MaxDue + 1
coalesce_off == FALSE

\* scheduler.add_job(poll_slurm_jobs, "interval", ..., max_instances=1,
\* misfire_grace_time=60); coalesce is not given and is on by default
max_instances == 1
coalesce == TRUE

\* the scheduler and its job:
\*   due             run times of the interval that have passed since the job was last processed
\*   instances       runs of the job that the executor has started and that are not over
\*   batch           calls of poll_slurm_jobs the running instances still have to make
\*   last            what the scheduler did with the job when it last processed it
\*   skipped         times the job was due and not started
SchedIdle == [due |-> 0, instances |-> 0, batch |-> 0, last |-> "none", skipped |-> 0]

\* no token is being minted; time.time() is clock / 2 (the clock counts half seconds)
\*   username        the argument of the call
\*   called          the clock when the call was made
\*   exp, iat, sun   the claims of the message, as far as they are computed
MintIdle ==
    [pc |-> "idle", clock |-> 0, username |-> "", called |-> 0,
     exp |-> 0, iat |-> 0, sun |-> ""]

\* no call of update_job_state_in_monitor_db yet:
\*   slurm_job_id, state   the arguments of the last call
\*   reached         the last call's update_one reached MongoDB and found a document
\*   before          the collection before the last call
\*   again           the last call repeated the arguments of the call before it, which
\*                   had reached MongoDB and found a document
NoUpdate ==
    [slurm_job_id |-> BAD_SLURM_JOB_ID, state |-> "", reached |-> FALSE,
     before |-> {}, again |-> FALSE]

Init ==
    /\ conn = ConnIdle
    /\ environ = SLURM_JWT_HS256_KEY_BASE64
    /\ upd = NoUpdate
    /\ mint = MintIdle
    /\ jobs = {}
    /\ nextRid = 1
    /\ slurmNextId = 1
    /\ now = 0
    /\ TASK_METADATA = TASK_METADATA_INIT
    /\ req = [h \in Handlers |-> Idle]
    /\ poll = PollIdle
    /\ sched = SchedIdle
    /\ dispatched = [rid \in {} |-> 0]
    /\ requests = 0
    /\ ticks = 0

\* one more call counted for a document, up to "many"
Count(d, rid) ==
    IF rid = 0 THEN d
    ELSE [k \in DOMAIN d \cup {rid} |->
            IF k = rid THEN (IF k \in DOMAIN d THEN (IF d[k] >= 2 THEN 2 ELSE d[k] + 1) ELSE 1)
            ELSE d[k]]

(***************************************************************************)
(* POST /submit (task_submission.post, submit_slurm_job_via_rest).         *)
(***************************************************************************)
SubmitBodies == {EmptyDict} \cup {[task |-> t] : t \in Tasks}

\* more tasks: one the catalog does not know, one whose catalog entry has no
\* command, one that brings its own command, one of a user without a name
MoreTasks ==
    {Task("u1", "no_such_task"), Task("u2", "generic_task"),
     [Task("u2", "echo_hello_world") EXCEPT !.username = ""],
     [cmd |-> <<"ls">>] @@ Task("u1", "generic_task")}
MoreSubmitBodies == {EmptyDict} \cup {[task |-> t] : t \in MoreTasks}
                    \cup {[task |-> [uuid |-> "u1", name |-> "echo_hello_world"]]}

\* the request carries a complete task whose name is in the catalog and whose
\* command define_task_cmd can build
CommandResolves(catalog, request_info) ==
    /\ HasKey(request_info, "task")
    /\ is_task_valid(request_info.task)
    /\ request_info.task.name \in DOMAIN catalog
    /\ define_task_cmd(catalog, request_info.task.name,
                       IF HasKey(request_info.task, "cmd") THEN request_info.task.cmd
                       ELSE <<>>,
                       IF HasKey(request_info.task, "params")
                       THEN request_info.task.params ELSE <<>>) # <<>>

\* the request is validated, the registry asked for the uuid and the preliminary
\* payload built
SubmitPost(h, request_info) ==
    /\ req[h].pc \in {"idle", "done"}
    /\ requests < MaxRequests
    /\ requests' = requests + 1
    /\ LET r == [Idle EXCEPT !.kind = "submit",
                             !.invalid = ~CommandResolves(TASK_METADATA, request_info)]
       IN  IF request_info \in {JsonNull, EmptyDict}
           THEN \* if not request_info
                req' = [req EXCEPT ![h] = Respond(r, 400, EmptyDict)]
           ELSE IF ~HasKey(request_info, "task") \/ ~is_task_valid(request_info.task)
           THEN req' = [req EXCEPT ![h] = Respond(r, 400, EmptyDict)]
           ELSE LET task == request_info.task
                    job_metadata == get_job_metadata_from_monitor_db_by_query(jobs, task.uuid)
                    rt == [r EXCEPT !.task = task, !.dup = (ByUuid(jobs, task.uuid) # {})]
                IN  IF TaskUuidExists(job_metadata)
                    THEN req' = [req EXCEPT ![h] = Respond(rt, 400, EmptyDict)]
                    ELSE IF ~get_preliminary_slurm_rest_payload_for_task(task).ok
                    THEN req' = [req EXCEPT ![h] = Respond(rt, 400, EmptyDict)]
                    ELSE req' = [req EXCEPT ![h] = [rt EXCEPT !.pc = "phaseA"]]
    /\ UNCHANGED <<conn, environ, sched, upd, mint, jobs, nextRid, slurmNextId, now, TASK_METADATA, poll, dispatched, ticks>>

\* the sun claims of the tokens sent so far, after one more call for username
Suns(suns, username) ==
    LET token == get_slurm_rest_jwt_token_for_username(username,
                                                        get_slurm_rest_jwt_private_key_via_env)
    IN  IF token.ok THEN suns \cup {token.sun} ELSE suns

\* the log of requests to SLURM after one more call for username
Sent(rest, what, username) ==
    IF SendsRequest(username) THEN Append(rest, what) ELSE rest

\* Phase A: the preliminary job is submitted and the main payload built
SubmitPhaseA(h, reply) ==
    /\ req[h].pc = "phaseA"
    /\ slurmNextId <= MaxJobId
    /\ reply \in SubmitReplies(slurmNextId)
    /\ LET r == req[h]
           payload == get_preliminary_slurm_rest_payload_for_task(r.task)
           preliminary_response == submit_job_via_params(payload, reply)
           r1 == [r EXCEPT !.rest = Sent(@, "submit", payload.username),
                           !.suns = Suns(@, payload.username),
                           !.prelim_reply = IF SendsRequest(payload.username)
                                               /\ HasKey(reply.body, "job_id")
                                            THEN reply.body.job_id ELSE BAD_SLURM_JOB_ID]
           preliminary_job_id == JobIdOf(preliminary_response)
           main_payload == get_main_slurm_rest_payload_for_task(
                               TASK_METADATA, r.task, preliminary_job_id)
       IN  /\ slurmNextId' = IF SendsRequest(payload.username) /\ HasKey(reply.body, "job_id")
                             THEN slurmNextId + 1 ELSE slurmNextId
           /\ IF preliminary_response.exc # ""
              THEN req' = [req EXCEPT ![h] = Respond(r1, 500, EmptyDict)]
              ELSE IF preliminary_response.status_code # 200
              THEN req' = [req EXCEPT ![h] = Respond(r1, 400, EmptyDict)]
              ELSE IF preliminary_job_id = BAD_SLURM_JOB_ID
              THEN req' = [req EXCEPT ![h] = Respond(r1, 400, EmptyDict)]
              ELSE IF ~main_payload.ok
              THEN req' = [req EXCEPT ![h] = Respond(r1, 400, EmptyDict)]
              ELSE req' = [req EXCEPT ![h] =
                              [r1 EXCEPT !.pc = "phaseB",
                                         !.preliminary_job_id = preliminary_job_id,
                                         !.main_payload = main_payload]]
    /\ UNCHANGED <<conn, environ, sched, upd, mint, jobs, nextRid, now, TASK_METADATA, poll, dispatched, requests, ticks>>

\* Phase B: the main job is submitted; post() then builds the MonitorJobSummary
SubmitPhaseB(h, reply) ==
    /\ req[h].pc = "phaseB"
    /\ slurmNextId <= MaxJobId
    /\ reply \in SubmitReplies(slurmNextId)
    /\ LET r == req[h]
           main_response == submit_job_via_params(r.main_payload, reply)
           r1 == [r EXCEPT !.rest = Sent(@, "submit", r.main_payload.username),
                           !.suns = Suns(@, r.main_payload.username),
                           !.sent_dependency = r.main_payload.job.dependency,
                           !.main_reply = IF SendsRequest(r.main_payload.username)
                                             /\ HasKey(reply.body, "job_id")
                                          THEN reply.body.job_id ELSE BAD_SLURM_JOB_ID]
           main_job_id == JobIdOf(main_response)
       IN  /\ slurmNextId' = IF SendsRequest(r.main_payload.username)
                                /\ HasKey(reply.body, "job_id")
                             THEN slurmNextId + 1 ELSE slurmNextId
           /\ IF main_response.exc # ""
              THEN req' = [req EXCEPT ![h] = Respond(r1, 500, EmptyDict)]
              ELSE IF main_response.status_code # 200
              THEN req' = [req EXCEPT ![h] = Respond(r1, 400, EmptyDict)]
              ELSE IF main_job_id = BAD_SLURM_JOB_ID
              THEN req' = [req EXCEPT ![h] = Respond(r1, 400, EmptyDict)]
              ELSE req' = [req EXCEPT ![h] =
                              [r1 EXCEPT !.pc = "lookup",
                                         !.submit_job_id = main_job_id,
                                         !.present = Registered(jobs, main_job_id, r.task),
                                         !.slurm_job_id = main_job_id,
                                         !.slurm_username = r.task.username]]
    /\ UNCHANGED <<conn, environ, sched, upd, mint, jobs, nextRid, now, TASK_METADATA, poll, dispatched, requests, ticks>>

(***************************************************************************)
(* POST /monitor (task_monitoring.post).                                   *)
(***************************************************************************)
MonitorBodies ==
    {EmptyDict}
    \cup {[monitor |-> [slurm_job_id |-> 2, task |-> Task(u, "echo_hello_world")]] :
            u \in UUIDs}
    \cup {[monitor |-> [slurm_job_id |-> j, task |-> Task("u1", "echo_hello_world")]] :
            j \in {0, SLURM_TEST_JOB_ID}}
    \cup {[monitor |-> [slurm_job_id |-> 2, slurm_job_state |-> "BOGUS",
                        task |-> Task("u1", "echo_hello_world")]]}

DictGet(d, k, default) == IF HasKey(d, k) THEN d[k] ELSE default

MonitorPost(h, request_info) ==
    /\ req[h].pc \in {"idle", "done"}
    /\ requests < MaxRequests
    /\ requests' = requests + 1
    /\ LET r == [Idle EXCEPT !.kind = "monitor"]
       IN  IF request_info = JsonNull
           THEN \* request_info.get on None: AttributeError
                req' = [req EXCEPT ![h] = Respond(r, 500, EmptyDict)]
           ELSE IF ~HasKey(request_info, "monitor")
                   \/ request_info.monitor \in {JsonNull, EmptyDict}
           THEN req' = [req EXCEPT ![h] = Respond(r, 400, EmptyDict)]
           ELSE LET request_monitor_job == request_info.monitor
                    task == DictGet(request_monitor_job, "task", EmptyDict)
                IN  req' = [req EXCEPT ![h] =
                               [r EXCEPT !.pc = "lookup", !.task = task,
                                         !.present = Registered(jobs,
                                             request_monitor_job.slurm_job_id, task),
                                         !.slurm_job_id = request_monitor_job.slurm_job_id,
                                         !.slurm_username =
                                             DictGet(task, "username",
                                                     SLURM_REST_GENERIC_USERNAME)]]
    /\ UNCHANGED <<conn, environ, sched, upd, mint, jobs, nextRid, slurmNextId, now, TASK_METADATA, poll, dispatched, ticks>>

(***************************************************************************)
(* monitor_new_slurm_job and add_job_to_monitor_db, for both routes.       *)
(***************************************************************************)
\* the body of a response whose generator raised while it was streamed
NoBody == [cut |-> TRUE]
\* a Python object that is no dict, list, string or number
PyObject(class, fields) == [object |-> class] @@ fields

\* stream_json_response: json.dumps runs when the body is streamed, after the
\* Response object with its status was returned.  json.dumps rejects with
\* TypeError an ObjectId (a document as MongoDB returns it holds one) and an
\* instance of a class of this program: the body is never sent, and the server
\* either keeps the status or answers 500 instead.
stream_json_response(data, status_code) ==
    IF HasKey(data, "rid") \/ HasKey(data, "object")
    THEN {[status |-> st, body |-> NoBody] : st \in {status_code, 500}}
    ELSE {[status |-> status_code, body |-> data]}

\* the responses possible once monitor_new_slurm_job has returned result
\* (POST /monitor passes the MonitorJobSummary itself to stream_json_response)
Monitored(r, result) ==
    LET data == IF ~result THEN EmptyDict
                ELSE IF r.kind = "submit"
                THEN [uuid |-> r.task.uuid, slurm_job_id |-> r.submit_job_id]
                ELSE PyObject("MonitorJobSummary", [slurm_job_id |-> r.slurm_job_id])
    IN  {Respond(r, resp.status, resp.body) :
            resp \in stream_json_response(data, IF result THEN 200 ELSE 400)}

\* add_job_to_monitor_db has returned result: an end state is notified next
Added(r, result) ==
    IF r.state \in SLURM_STATE_END_STATES
    THEN {[r EXCEPT !.pc = "notify", !.result = result]}
    ELSE Monitored(r, result)

NoReply == [status |-> 404, jobs |-> <<>>]

\* the live state is asked for, and asked for again when it came back UNKNOWN
\* (current_slurm_job_metadata["state"] on a SlurmJobSummary is a TypeError)
RegisterLookup(h, reply, reply2) ==
    /\ req[h].pc = "lookup"
    /\ reply \in LookupReplies
    /\ reply2 \in LookupReplies
    /\ LET r == req[h]
           slurm_job_id == r.slurm_job_id
           slurm_username == r.slurm_username
           md == get_current_slurm_job_metadata_by_slurm_job_id_via_rest(
                     slurm_job_id, slurm_username, reply)
           slurm_job_state == monitor_new_slurm_job_state(md)
           md2 == get_current_slurm_job_metadata_by_slurm_job_id_via_rest(
                     slurm_job_id, slurm_username, reply2)
           r1 == [r EXCEPT !.rest = IF LookupCallsRest(slurm_job_id)
                                    THEN Sent(@, "job", slurm_username) ELSE @,
                           !.suns = IF LookupCallsRest(slurm_job_id)
                                    THEN Suns(@, slurm_username) ELSE @]
           r2 == [r1 EXCEPT !.rest = Sent(@, "job", slurm_username),
                            !.state = slurm_job_state]
       IN  IF md.kind = "none"
           THEN reply2 = NoReply /\ \E a \in Monitored(r1, FALSE) : req' = [req EXCEPT ![h] = a]
           ELSE IF md.kind = "dict"
           THEN reply2 = NoReply /\ req' = [req EXCEPT ![h] = Respond(r1, 500, EmptyDict)]
           ELSE IF slurm_job_state # SLURM_STATE_UNKNOWN
           THEN reply2 = NoReply
                /\ req' = [req EXCEPT ![h] = [r1 EXCEPT !.pc = "find",
                                                        !.state = slurm_job_state,
                                                        !.created_at = now]]
           ELSE IF md2.kind # "none"
           THEN req' = [req EXCEPT ![h] = Respond(r2, 500, EmptyDict)]
           ELSE req' = [req EXCEPT ![h] = [r2 EXCEPT !.pc = "find", !.created_at = now]]
    /\ UNCHANGED <<conn, environ, sched, upd, mint, jobs, nextRid, slurmNextId, now, TASK_METADATA, poll, dispatched, requests, ticks>>

\* the two find_one calls (dbok: MongoDB answers)
RegisterFind(h, dbok) ==
    /\ req[h].pc = "find"
    /\ LET r == req[h]
       IN  IF ~dbok
           THEN \E a \in Added(r, FALSE) : req' = [req EXCEPT ![h] = a]
           ELSE IF ById(jobs, r.slurm_job_id) = {} /\ ~HasKey(r.task, "uuid")
           THEN req' = [req EXCEPT ![h] = Respond(r, 500, EmptyDict)]
           ELSE IF NotYetMonitored(jobs, r.slurm_job_id, r.task)
           THEN req' = [req EXCEPT ![h] = [r EXCEPT !.pc = "insert"]]
           ELSE \E a \in Added(r, TRUE) : req' = [req EXCEPT ![h] = a]
    /\ UNCHANGED <<conn, environ, sched, upd, mint, jobs, nextRid, slurmNextId, now, TASK_METADATA, poll, dispatched, requests, ticks>>

\* insert_one
RegisterInsert(h, dbok) ==
    /\ req[h].pc = "insert"
    /\ nextRid <= MaxRecords
    /\ LET r == req[h]
           job == MonitorJobSummary(r.slurm_username, r.slurm_job_id, r.state,
                                    r.task, r.created_at)
       IN  IF dbok
           THEN /\ jobs' = jobs \cup {Document(job, nextRid)}
                /\ nextRid' = nextRid + 1
                /\ \E a \in Added([r EXCEPT !.inserted = nextRid], TRUE) : req' = [req EXCEPT ![h] = a]
           ELSE /\ UNCHANGED <<jobs, nextRid>>
                /\ \E a \in Added(r, FALSE) : req' = [req EXCEPT ![h] = a]
    /\ UNCHANGED <<conn, environ, sched, upd, mint, slurmNextId, now, TASK_METADATA, poll, dispatched, requests, ticks>>

\* the job was in an end state already: process_job_state_change
RegisterNotify(h, dbok) ==
    /\ req[h].pc = "notify"
    /\ LET r == req[h]
           out == process_job_state_change(jobs, TASK_METADATA, r.slurm_job_id,
                                           r.state, dbok)
       IN  /\ TASK_METADATA' = out.catalog
           /\ dispatched' = Count(dispatched, out.rid)
           /\ IF out.exc # ""
              THEN req' = [req EXCEPT ![h] = Respond(r, 500, EmptyDict)]
              ELSE \E a \in Monitored(r, r.result) : req' = [req EXCEPT ![h] = a]
    /\ UNCHANGED <<conn, environ, sched, upd, mint, jobs, nextRid, slurmNextId, now, poll, requests, ticks>>

(***************************************************************************)
(* update_job_state_in_monitor_db, called on registries of all kinds.      *)
(***************************************************************************)
UpdateIds == {2, 3}
UpdateStates == {"RUNNING", "COMPLETED", SLURM_STATE_UNKNOWN}

\* documents as registrations leave them: of job 2 or 3, one per uuid or two
\* of the same job and uuid (registrations that raced)
RegistryDocuments(rid) ==
    {Document(MonitorJobSummary("alice", id, st, Task(u, "echo_hello_world"), 0), rid) :
        id \in UpdateIds, st \in {"RUNNING", SLURM_STATE_UNKNOWN}, u \in UUIDs}
Registries ==
    {{}} \cup {{d} : d \in RegistryDocuments(1)}
    \cup {{d1, d2} : d1 \in RegistryDocuments(1), d2 \in RegistryDocuments(2)}

InitUpdate ==
    /\ conn = ConnIdle
    /\ environ = SLURM_JWT_HS256_KEY_BASE64
    /\ upd = NoUpdate
    /\ mint = MintIdle
    /\ jobs \in Registries
    /\ nextRid = Cardinality(jobs) + 1
    /\ slurmNextId = 1
    /\ now = 0
    /\ TASK_METADATA = TASK_METADATA_INIT
    /\ req = [h \in Handlers |-> Idle]
    /\ poll = PollIdle
    /\ sched = SchedIdle
    /\ dispatched = [rid \in {} |-> 0]
    /\ requests = 0
    /\ ticks = 0

\* update_job_state_in_monitor_db(slurm_job_id, new_slurm_job_state)
UpdateState(slurm_job_id, new_slurm_job_state, dbok) ==
    /\ jobs' = IF dbok THEN update_one(jobs, slurm_job_id, new_slurm_job_state, now)
               ELSE jobs
    /\ upd' = [slurm_job_id |-> slurm_job_id, state |-> new_slurm_job_state,
               reached |-> dbok /\ ById(jobs, slurm_job_id) # {},
               before |-> jobs,
               again |-> /\ upd.reached
                         /\ upd.slurm_job_id = slurm_job_id
                         /\ upd.state = new_slurm_job_state]
    /\ UNCHANGED <<conn, environ, sched, mint, nextRid, slurmNextId, now, TASK_METADATA, req, poll, dispatched,
                   requests, ticks>>

(***************************************************************************)
(* GET /monitor/task_uuid/<uuid> (get_job_metadata_by_task_uuid).          *)
(***************************************************************************)
\* the accepted submissions of uuid whose answers the handlers hold
AcceptedFor(uuid) ==
    {[slurm_job_id |-> req[g].body.slurm_job_id, task |-> req[g].task] :
        g \in {k \in Handlers : /\ req[k].kind = "submit" /\ req[k].pc = "done"
                                /\ req[k].status = 200 /\ req[k].body.uuid = uuid}}

\* get_job_metadata_from_monitor_db_by_task_uuid: as for the slurm_job_id, no
\* document is a TypeError and only PyMongoError becomes None
GetFind(h, task_uuid, dbok) ==
    /\ req[h].pc \in {"idle", "done"}
    /\ requests < MaxApiRequests
    /\ requests' = requests + 1
    /\ LET r == [Idle EXCEPT !.kind = "get", !.expect = AcceptedFor(task_uuid)]
       IN  IF ~dbok
           THEN req' = [req EXCEPT ![h] = Respond(r, 404, EmptyDict)]
           ELSE IF ByUuid(jobs, task_uuid) = {}
           THEN req' = [req EXCEPT ![h] = Respond(r, 500, EmptyDict)]
           ELSE LET monitor_db_job_metadata == FirstOf(ByUuid(jobs, task_uuid))
                IN  req' = [req EXCEPT ![h] =
                               [r EXCEPT !.pc = "getlookup",
                                         !.task = monitor_db_job_metadata.task,
                                         !.slurm_job_id =
                                             monitor_db_job_metadata.slurm_job_id,
                                         !.slurm_username =
                                             DictGet(monitor_db_job_metadata.task,
                                                     "username",
                                                     SLURM_REST_GENERIC_USERNAME)]]
    /\ UNCHANGED <<conn, environ, sched, upd, mint, jobs, nextRid, slurmNextId, now, TASK_METADATA, poll, dispatched,
                   ticks>>

\* the live state is asked for and the JobSummary object handed to
\* stream_json_response
GetLookup(h, reply) ==
    /\ req[h].pc = "getlookup"
    /\ reply \in LookupReplies
    /\ LET r == req[h]
           md == get_current_slurm_job_metadata_by_slurm_job_id_via_rest(
                     r.slurm_job_id, r.slurm_username, reply)
           r1 == [r EXCEPT !.rest = IF LookupCallsRest(r.slurm_job_id)
                                    THEN Sent(@, "job", r.slurm_username) ELSE @]
           response_data ==
               PyObject("JobSummary",
                        [slurm |-> md,
                         monitor |-> [task |-> r.task, slurm_job_id |-> r.slurm_job_id]])
       IN  IF md.kind = "none"
           THEN req' = [req EXCEPT ![h] = Respond(r1, 404, EmptyDict)]
           ELSE \E resp \in stream_json_response(response_data, 200) :
                    req' = [req EXCEPT ![h] = Respond(r1, resp.status, resp.body)]
    /\ UNCHANGED <<conn, environ, sched, upd, mint, jobs, nextRid, slurmNextId, now, TASK_METADATA, poll, dispatched,
                   requests, ticks>>

(***************************************************************************)
(* GET /slurm/diag, /slurm/jobs/<update_time>, /slurm/job/<job_id>.        *)
(***************************************************************************)
SlurmEndpoints == {"diag", "jobs", "job"}
SlurmUsernames == {"", "alice"}

\* answers of slurmrestd to a GET: a JSON object, an empty one, an error
SlurmGetReplies ==
    {[status |-> 200, body |-> [meta |-> 1]],
     [status |-> 200, body |-> EmptyDict],
     [status |-> 500, body |-> [errors |-> 1]]}

\* None on a status other than 200, else (response.json(), query_url)
query_slurm_get_endpoint_via_requests(reply) ==
    IF reply.status # 200 THEN [none |-> TRUE, json |-> EmptyDict]
    ELSE [none |-> FALSE, json |-> reply.body]

\* get_diag, get_list_of_jobs, get_job_info_for_job_id: run_query for the
\* username of the query string, the generic one when there is none
SlurmGet(h, endpoint_key, username, reply) ==
    /\ req[h].pc \in {"idle", "done"}
    /\ requests < MaxRequests
    /\ requests' = requests + 1
    /\ LET u == IF username = "" THEN SLURM_REST_GENERIC_USERNAME ELSE username
           r == [Idle EXCEPT !.kind = endpoint_key,
                             !.rest = Sent(@, endpoint_key, u),
                             !.suns = Suns(@, u)]
           response == run_query(
                           get_slurm_rest_jwt_token_for_username(
                               u, get_slurm_rest_jwt_private_key_via_env),
                           query_slurm_get_endpoint_via_requests(reply))
       IN  IF response.exc # ""
           THEN req' = [req EXCEPT ![h] = Respond(r, 500, EmptyDict)]
           ELSE req' = [req EXCEPT ![h] =
                           Respond(r, response.status_code, response.response)]
    /\ UNCHANGED <<conn, environ, sched, upd, mint, jobs, nextRid, slurmNextId, now, TASK_METADATA, poll,
                   dispatched, ticks>>

(***************************************************************************)
(* The background scheduler and its interval job.                          *)
(***************************************************************************)
\* a run time of the interval trigger passes
IntervalElapses ==
    /\ sched.due < MaxDue
    /\ sched' = [sched EXCEPT !.due = @ + 1]
    /\ UNCHANGED <<conn, environ, upd, mint, jobs, nextRid, slurmNextId, now, TASK_METADATA, req,
                   poll, dispatched, requests, ticks>>

\* the scheduler processes the job: the run times that have passed are taken
\* (only the latest when coalescing), dropped when even that one is later than
\* the grace time (misfire), dropped when max_instances runs are going on, and
\* handed to the executor as one instance otherwise
SchedulerWakes(misfire) ==
    /\ sched.due > 0
    /\ LET run_times == IF coalesce THEN 1 ELSE sched.due
           s == [sched EXCEPT !.due = 0]
       IN  IF misfire
           THEN sched' = [s EXCEPT !.last = "missed",
                                   !.skipped = IF @ < MaxSkipped THEN @ + 1 ELSE @]
           ELSE IF sched.instances >= max_instances
           THEN sched' = [s EXCEPT !.last = "skipped",
                                   !.skipped = IF @ < MaxSkipped THEN @ + 1 ELSE @]
           ELSE sched' = [s EXCEPT !.last = "started", !.instances = @ + 1,
                                   !.batch = @ + run_times]
    /\ UNCHANGED <<conn, environ, upd, mint, jobs, nextRid, slurmNextId, now, TASK_METADATA, req,
                   poll, dispatched, requests, ticks>>

\* a running instance calls poll_slurm_jobs
JobRuns ==
    /\ sched.instances > 0
    /\ sched.batch > 0
    /\ ticks < MaxSchedRuns
    /\ ticks' = ticks + 1
    /\ sched' = [sched EXCEPT !.batch = @ - 1]
    /\ UNCHANGED <<conn, environ, upd, mint, jobs, nextRid, slurmNextId, now, TASK_METADATA, req,
                   poll, dispatched, requests>>

\* an instance has made its calls and is over
JobDone ==
    /\ sched.instances > 0
    /\ sched.batch < sched.instances
    /\ sched' = [sched EXCEPT !.instances = @ - 1]
    /\ UNCHANGED <<conn, environ, upd, mint, jobs, nextRid, slurmNextId, now, TASK_METADATA, req,
                   poll, dispatched, requests, ticks>>

(***************************************************************************)
(* get_slurm_rest_jwt_token_for_username, statement by statement.          *)
(***************************************************************************)
MintUsernames == {"", "alice", "bob"}

\* int(time.time()) for the clock reading c
IntTime(c) == c \div 2

\* the call: the username is coerced and the key read
MintCall(username) ==
    /\ mint.pc \in {"idle", "done"}
    /\ LET token == get_slurm_rest_jwt_token_for_username(username,
                                                            get_slurm_rest_jwt_private_key_via_env)
       IN  IF ~token.ok
           THEN mint' = [MintIdle EXCEPT !.clock = mint.clock]
           ELSE mint' = [MintIdle EXCEPT !.pc = "exp", !.clock = mint.clock,
                                         !.username = username,
                                         !.called = mint.clock, !.sun = token.sun]
    /\ UNCHANGED <<conn, environ, sched, upd, jobs, nextRid, slurmNextId, now, TASK_METADATA, req, poll,
                   dispatched, requests, ticks>>

\* "exp": int(time.time() + SLURM_REST_JWT_EXPIRATION_TIME)
MintExp ==
    /\ mint.pc = "exp"
    /\ mint' = [mint EXCEPT !.pc = "iat",
                            !.exp = IntTime(mint.clock) + SLURM_REST_JWT_EXPIRATION_TIME]
    /\ UNCHANGED <<conn, environ, sched, upd, jobs, nextRid, slurmNextId, now, TASK_METADATA, req, poll,
                   dispatched, requests, ticks>>

\* "iat": int(time.time()), and the message is encoded
MintIat ==
    /\ mint.pc = "iat"
    /\ mint' = [mint EXCEPT !.pc = "done", !.iat = IntTime(mint.clock)]
    /\ UNCHANGED <<conn, environ, sched, upd, jobs, nextRid, slurmNextId, now, TASK_METADATA, req, poll,
                   dispatched, requests, ticks>>

\* half a second passes
MintClock ==
    /\ mint.clock < MaxClock
    /\ mint' = [mint EXCEPT !.clock = @ + 1]
    /\ UNCHANGED <<conn, environ, sched, upd, jobs, nextRid, slurmNextId, now, TASK_METADATA, req, poll,
                   dispatched, requests, ticks>>

(***************************************************************************)
(* DELETE /monitor/slurm_job_id/<id> (delete_by_slurm_job_id_via_ssh).     *)
(***************************************************************************)
DeleteIds == {2, 3}

\* what ssh_client_exec and recv_exit_status can do: the command ran and exited
\* with 0 or 1, recv_exit_status raised SSHException, or ssh_client_exec caught
\* the connection error itself and returned None
SshOutcomes == {"exit0", "exit1", "SSHException", "None"}

\* if exit_code != 0
ScancelFailed(exit_code) == exit_code # 0

\* find_one_and_delete({"slurm_job_id": slurm_job_id})
remove_and_return_job_from_monitor_db_by_slurm_job_id(coll, slurm_job_id, dbok) ==
    IF dbok /\ ById(coll, slurm_job_id) # {}
    THEN [coll |-> coll \ {FirstOf(ById(coll, slurm_job_id))},
          result |-> FirstOf(ById(coll, slurm_job_id))]
    ELSE [coll |-> coll, result |-> JsonNull]

\* get_job_metadata_from_monitor_db: result['_id'] is evaluated before result is
\* tested, so no document is a TypeError; only PyMongoError is turned into None
DeleteFind(h, slurm_job_id, dbok) ==
    /\ req[h].pc \in {"idle", "done"}
    /\ requests < MaxApiRequests
    /\ requests' = requests + 1
    /\ LET r == [Idle EXCEPT !.kind = "delete", !.slurm_job_id = slurm_job_id,
                             !.found = (ById(jobs, slurm_job_id) # {})]
       IN  IF ~dbok
           THEN req' = [req EXCEPT ![h] = Respond(r, 404, EmptyDict)]
           ELSE IF ById(jobs, slurm_job_id) = {}
           THEN req' = [req EXCEPT ![h] = Respond(r, 500, EmptyDict)]
           ELSE req' = [req EXCEPT ![h] = [r EXCEPT !.pc = "scancel"]]
    /\ UNCHANGED <<conn, environ, sched, upd, mint, jobs, nextRid, slurmNextId, now, TASK_METADATA, poll, dispatched, ticks>>

\* scancel <id> over SSH
DeleteScancel(h, ssh) ==
    /\ req[h].pc = "scancel"
    /\ ssh \in SshOutcomes
    /\ LET r == [req[h] EXCEPT !.scancel = ssh, !.rest = Append(@, "scancel"),
                               !.in_ssh = FALSE]
           exit_code == IF ssh = "exit0" THEN 0 ELSE 1
       IN  IF ssh = "None"
           THEN req' = [req EXCEPT ![h] = Respond(r, 500, EmptyDict)]
           ELSE IF ssh = "SSHException"
           THEN req' = [req EXCEPT ![h] = Respond(r, 500, EmptyDict)]
           ELSE IF ScancelFailed(exit_code)
           THEN req' = [req EXCEPT ![h] = Respond(r, 400, EmptyDict)]
           ELSE req' = [req EXCEPT ![h] = [r EXCEPT !.pc = "remove"]]
    /\ UNCHANGED <<conn, environ, sched, upd, mint, jobs, nextRid, slurmNextId, now, TASK_METADATA, poll, dispatched,
                   requests, ticks>>

\* SSHClientConnection.ssh_client_exec seen step by step: the thread calls
\* connect on the client all threads share (nothing is acquired before) ...
SshConnect(h) ==
    /\ req[h].pc = "scancel"
    /\ ~req[h].in_ssh
    /\ req' = [req EXCEPT ![h].in_ssh = TRUE]
    /\ UNCHANGED <<conn, environ, sched, upd, mint, jobs, nextRid, slurmNextId, now, TASK_METADATA, poll, dispatched,
                   requests, ticks>>

\* ... and exec_command returns, or an exception ends the call
SshExecCommand(h, ssh) ==
    /\ req[h].in_ssh
    /\ DeleteScancel(h, ssh)

\* the document is removed and sent back
DeleteRemove(h, dbok) ==
    /\ req[h].pc = "remove"
    /\ LET r == req[h]
           out == remove_and_return_job_from_monitor_db_by_slurm_job_id(
                      jobs, r.slurm_job_id, dbok)
           deleted_job == out.result
           r1 == [r EXCEPT !.removed = IF deleted_job = JsonNull THEN 0
                                       ELSE deleted_job.rid]
       IN  /\ jobs' = out.coll
           /\ \E resp \in stream_json_response(deleted_job, 200) :
                  req' = [req EXCEPT ![h] = Respond(r1, resp.status, resp.body)]
    /\ UNCHANGED <<conn, environ, sched, upd, mint, nextRid, slurmNextId, now, TASK_METADATA, poll, dispatched,
                   requests, ticks>>

(***************************************************************************)
(* MongoDBConnection.__new__ (SSHClientConnection.__new__ is the same with *)
(* one attribute), bytecode by bytecode as far as other threads can see.   *)
(***************************************************************************)
\* if not cls._instance: (outside the lock)
ConnCheck(t) ==
    /\ conn.pc[t] = "start"
    /\ conn' = [conn EXCEPT !.pc[t] = IF conn.instance = "none" THEN "acquire" ELSE "return"]
    /\ UNCHANGED <<environ, sched, upd, mint, jobs, nextRid, slurmNextId, now, TASK_METADATA, req, poll, dispatched, requests, ticks>>

\* with cls._lock:
ConnAcquire(t) ==
    /\ conn.pc[t] = "acquire"
    /\ conn.lock = 0
    /\ conn' = [conn EXCEPT !.pc[t] = "check", !.lock = t]
    /\ UNCHANGED <<environ, sched, upd, mint, jobs, nextRid, slurmNextId, now, TASK_METADATA, req, poll, dispatched, requests, ticks>>

\* if not cls._instance: (inside the lock)
ConnCheckLocked(t) ==
    /\ conn.pc[t] = "check"
    /\ conn' = [conn EXCEPT !.pc[t] = IF conn.instance = "none" THEN "new" ELSE "release"]
    /\ UNCHANGED <<environ, sched, upd, mint, jobs, nextRid, slurmNextId, now, TASK_METADATA, req, poll, dispatched, requests, ticks>>

\* cls._instance = super(MongoDBConnection, cls).__new__(cls)
ConnNew(t) ==
    /\ conn.pc[t] = "new"
    /\ conn' = [conn EXCEPT !.pc[t] = "client", !.instance = "bare"]
    /\ UNCHANGED <<environ, sched, upd, mint, jobs, nextRid, slurmNextId, now, TASK_METADATA, req, poll, dispatched, requests, ticks>>

\* cls._instance._client = MongoClient(...)
ConnClient(t) ==
    /\ conn.pc[t] = "client"
    /\ conn' = [conn EXCEPT !.pc[t] = "db", !.instance = "client", !.clients = @ + 1]
    /\ UNCHANGED <<environ, sched, upd, mint, jobs, nextRid, slurmNextId, now, TASK_METADATA, req, poll, dispatched, requests, ticks>>

\* cls._instance._monitor_db = cls._instance._client[database_name]
ConnDb(t) ==
    /\ conn.pc[t] = "db"
    /\ conn' = [conn EXCEPT !.pc[t] = "release", !.instance = "ready"]
    /\ UNCHANGED <<environ, sched, upd, mint, jobs, nextRid, slurmNextId, now, TASK_METADATA, req, poll, dispatched, requests, ticks>>

\* the with block is left
ConnRelease(t) ==
    /\ conn.pc[t] = "release"
    /\ conn' = [conn EXCEPT !.pc[t] = "return", !.lock = 0]
    /\ UNCHANGED <<environ, sched, upd, mint, jobs, nextRid, slurmNextId, now, TASK_METADATA, req, poll, dispatched, requests, ticks>>

\* return cls._instance
ConnReturn(t) ==
    /\ conn.pc[t] = "return"
    /\ conn' = [conn EXCEPT !.pc[t] = "done", !.got[t] = conn.instance]
    /\ UNCHANGED <<environ, sched, upd, mint, jobs, nextRid, slurmNextId, now, TASK_METADATA, req, poll, dispatched, requests, ticks>>

(***************************************************************************)
(* poll_slurm_jobs, one tick of the scheduler's job (max_instances = 1).   *)
(***************************************************************************)
\* the tick reads the documents of the scan window
PollStart(dbok) ==
    /\ poll.pc = "idle"
    /\ ticks < MaxTicks
    /\ ticks' = ticks + 1
    /\ IF dbok
       THEN poll' = [PollIdle EXCEPT
                        !.pc = "scan",
                        !.cursor = InOrder({r \in jobs : InScanWindow(r, now)}),
                        !.frozen = {r.rid : r \in {q \in jobs :
                                        q.slurm_job_state \in SLURM_STATE_END_STATES}},
                        !.track = poll.track, !.retry = poll.missed,
                        !.at = IF poll.track THEN now ELSE NoTime]
       ELSE poll' = [PollIdle EXCEPT !.track = poll.track, !.missed = poll.missed]
    /\ UNCHANGED <<conn, environ, sched, upd, mint, jobs, nextRid, slurmNextId, now, TASK_METADATA, req, dispatched, requests>>

\* the same tick where the scheduler never stops calling the job: the count of
\* the runs stays at its bound
PollStartEver(dbok) ==
    /\ poll.pc = "idle"
    /\ ticks' = IF ticks < MaxTicks THEN ticks + 1 ELSE ticks
    /\ IF dbok
       THEN poll' = [PollIdle EXCEPT
                        !.pc = "scan",
                        !.cursor = InOrder({r \in jobs : InScanWindow(r, now)}),
                        !.frozen = {r.rid : r \in {q \in jobs :
                                        q.slurm_job_state \in SLURM_STATE_END_STATES}},
                        !.track = poll.track, !.retry = poll.missed,
                        !.at = IF poll.track THEN now ELSE NoTime]
       ELSE poll' = [PollIdle EXCEPT !.track = poll.track, !.missed = poll.missed]
    /\ UNCHANGED <<conn, environ, sched, upd, mint, jobs, nextRid, slurmNextId, now, TASK_METADATA, req, dispatched, requests>>

\* the cursor is exhausted: the tick ends
PollEnd ==
    /\ poll.pc = "scan"
    /\ poll.cursor = <<>>
    /\ poll' = Ended(poll)
    /\ UNCHANGED <<conn, environ, sched, upd, mint, jobs, nextRid, slurmNextId, now, TASK_METADATA, req, dispatched, requests, ticks>>

\* the next document is one of a finished job: continue
PollSkip ==
    /\ poll.pc = "scan"
    /\ poll.cursor # <<>>
    /\ IsEndState(Head(poll.cursor).slurm_job_state)
    /\ poll' = [poll EXCEPT !.cursor = Tail(@)]
    /\ UNCHANGED <<conn, environ, sched, upd, mint, jobs, nextRid, slurmNextId, now, TASK_METADATA, req, dispatched, requests, ticks>>

\* the next document's job is looked up and its state compared
PollLookup(reply) ==
    /\ poll.pc = "scan"
    /\ poll.cursor # <<>>
    /\ ~IsEndState(Head(poll.cursor).slurm_job_state)
    /\ reply \in LookupReplies
    /\ LET job == Head(poll.cursor)
           slurm_username == DictGet(job.task, "username", SLURM_REST_GENERIC_USERNAME)
           md == get_current_slurm_job_metadata_by_slurm_job_id_via_rest(
                     job.slurm_job_id, slurm_username, reply)
           new_slurm_job_state == poll_new_slurm_job_state(md.job_state)
           p == [poll EXCEPT !.cursor = Tail(@),
                             !.raw = "", !.wrote = FALSE,
                             !.missed = IF poll.track /\ md.kind = "none"
                                        THEN @ \cup {job.rid} ELSE @,
                             !.looked = IF LookupCallsRest(job.slurm_job_id)
                                           /\ SendsRequest(slurm_username)
                                        THEN @ \cup {job.rid} ELSE @]
       IN  IF md.kind = "none" THEN poll' = p
           ELSE IF md.kind = "dict"
           THEN poll' = Ended(p)
           ELSE IF job.slurm_job_state = md.job_state
           THEN poll' = [p EXCEPT !.job = job, !.new_state = job.slurm_job_state,
                                  !.raw = reply.jobs[1], !.wrote = FALSE]
           ELSE IF NotifiesOn(new_slurm_job_state)
           THEN poll' = [p EXCEPT !.pc = "dispatch", !.job = job,
                                  !.new_state = new_slurm_job_state,
                                  !.raw = reply.jobs[1], !.wrote = FALSE,
                                  !.ended = IF new_slurm_job_state \in SLURM_STATE_END_STATES
                                            THEN @ \cup {<<job.rid, new_slurm_job_state>>}
                                            ELSE @]
           ELSE poll' = [p EXCEPT !.pc = "update", !.job = job,
                                  !.new_state = new_slurm_job_state,
                                  !.raw = reply.jobs[1], !.wrote = FALSE]
    /\ UNCHANGED <<conn, environ, sched, upd, mint, jobs, nextRid, slurmNextId, now, TASK_METADATA, req, dispatched, requests, ticks>>

\* process_job_state_change for a job that reached an end state; an exception
\* other than PyMongoError leaves poll_slurm_jobs and ends the tick
PollDispatch(dbok) ==
    /\ poll.pc = "dispatch"
    /\ LET out == process_job_state_change(jobs, TASK_METADATA, poll.job.slurm_job_id,
                                           poll.new_state, dbok)
           p == [poll EXCEPT !.calls = Append(@, poll.job.rid)]
       IN  /\ TASK_METADATA' = out.catalog
           /\ dispatched' = Count(dispatched, out.rid)
           /\ IF out.exc # ""
              THEN poll' = Ended(p)
              ELSE poll' = [p EXCEPT !.pc = "update"]
    /\ UNCHANGED <<conn, environ, sched, upd, mint, jobs, nextRid, slurmNextId, now, req, requests, ticks>>

\* a faulty variant of the state write: a failed write ends the tick
PollUpdateAbandons(dbok) ==
    /\ poll.pc = "update"
    /\ jobs' = IF dbok THEN update_one(jobs, poll.job.slurm_job_id, poll.new_state, now)
               ELSE jobs
    /\ poll' = IF dbok THEN [poll EXCEPT !.pc = "scan", !.wrote = TRUE] ELSE Ended(poll)
    /\ UNCHANGED <<conn, environ, sched, upd, mint, nextRid, slurmNextId, now, TASK_METADATA, req, dispatched, requests, ticks>>

\* update_job_state_in_monitor_db
PollUpdate(dbok) ==
    /\ poll.pc = "update"
    /\ jobs' = IF dbok THEN update_one(jobs, poll.job.slurm_job_id, poll.new_state, now)
               ELSE jobs
    /\ poll' = [poll EXCEPT !.pc = "scan", !.wrote = dbok]
    /\ UNCHANGED <<conn, environ, sched, upd, mint, nextRid, slurmNextId, now, TASK_METADATA, req, dispatched, requests, ticks>>

\* time passes
Tick ==
    /\ now < MaxTime
    /\ now' = now + 1
    /\ UNCHANGED <<conn, environ, sched, upd, mint, jobs, nextRid, slurmNextId, TASK_METADATA, req, poll, dispatched, requests, ticks>>

\* time passes, far enough for a record to leave the scan window
TickLate ==
    /\ now < MaxScanTime
    /\ now' = now + 1
    /\ UNCHANGED <<conn, environ, sched, upd, mint, jobs, nextRid, slurmNextId, TASK_METADATA, req, poll, dispatched, requests, ticks>>

Next ==
    \/ \E h \in Handlers, b \in SubmitBodies : SubmitPost(h, b)
    \/ \E h \in Handlers, reply \in AllSubmitReplies : SubmitPhaseA(h, reply)
    \/ \E h \in Handlers, reply \in AllSubmitReplies : SubmitPhaseB(h, reply)
    \/ \E h \in Handlers, b \in MonitorBodies : MonitorPost(h, b)
    \/ \E h \in Handlers, reply \in LookupReplies, reply2 \in LookupReplies :
            RegisterLookup(h, reply, reply2)
    \/ \E h \in Handlers, dbok \in BOOLEAN : RegisterFind(h, dbok)
    \/ \E h \in Handlers, dbok \in BOOLEAN : RegisterInsert(h, dbok)
    \/ \E h \in Handlers, dbok \in BOOLEAN : RegisterNotify(h, dbok)
    \/ \E dbok \in BOOLEAN : PollStart(dbok)
    \/ PollEnd
    \/ PollSkip
    \/ \E reply \in LookupReplies : PollLookup(reply)
    \/ \E dbok \in BOOLEAN : PollDispatch(dbok)
    \/ \E dbok \in BOOLEAN : PollUpdate(dbok)
    \/ Tick

Spec == Init /\ [][Next]_vars

\* registration and removal through the API
NextDelete ==
    \/ \E h \in Handlers, b \in MonitorBodies : MonitorPost(h, b)
    \/ \E h \in Handlers, reply \in LookupReplies, reply2 \in LookupReplies :
            RegisterLookup(h, reply, reply2)
    \/ \E h \in Handlers, dbok \in BOOLEAN : RegisterFind(h, dbok)
    \/ \E h \in Handlers, dbok \in BOOLEAN : RegisterInsert(h, dbok)
    \/ \E h \in Handlers, dbok \in BOOLEAN : RegisterNotify(h, dbok)
    \/ \E h \in Handlers, id \in DeleteIds, dbok \in BOOLEAN : DeleteFind(h, id, dbok)
    \/ \E h \in Handlers, ssh \in SshOutcomes : DeleteScancel(h, ssh)
    \/ \E h \in Handlers, dbok \in BOOLEAN : DeleteRemove(h, dbok)

SpecDelete == Init /\ [][NextDelete]_vars

\* the same requests, with the calls on the SSH client seen step by step
NextSsh ==
    \/ \E h \in Handlers, b \in MonitorBodies : MonitorPost(h, b)
    \/ \E h \in Handlers, reply \in LookupReplies, reply2 \in LookupReplies :
            RegisterLookup(h, reply, reply2)
    \/ \E h \in Handlers, dbok \in BOOLEAN : RegisterFind(h, dbok)
    \/ \E h \in Handlers, dbok \in BOOLEAN : RegisterInsert(h, dbok)
    \/ \E h \in Handlers, dbok \in BOOLEAN : RegisterNotify(h, dbok)
    \/ \E h \in Handlers, id \in DeleteIds, dbok \in BOOLEAN : DeleteFind(h, id, dbok)
    \/ \E h \in Handlers : SshConnect(h)
    \/ \E h \in Handlers, ssh \in SshOutcomes : SshExecCommand(h, ssh)
    \/ \E h \in Handlers, dbok \in BOOLEAN : DeleteRemove(h, dbok)

SpecSsh == Init /\ [][NextSsh]_vars

\* submissions of all kinds of tasks
NextSubmit ==
    \/ \E h \in Handlers, b \in MoreSubmitBodies : SubmitPost(h, b)
    \/ \E h \in Handlers, reply \in AllSubmitReplies : SubmitPhaseA(h, reply)
    \/ \E h \in Handlers, reply \in AllSubmitReplies : SubmitPhaseB(h, reply)
    \/ \E h \in Handlers, reply \in LookupReplies, reply2 \in LookupReplies :
            RegisterLookup(h, reply, reply2)
    \/ \E h \in Handlers, dbok \in BOOLEAN : RegisterFind(h, dbok)
    \/ \E h \in Handlers, dbok \in BOOLEAN : RegisterInsert(h, dbok)
    \/ \E h \in Handlers, dbok \in BOOLEAN : RegisterNotify(h, dbok)

SpecSubmit == Init /\ [][NextSubmit]_vars

\* submissions and questions about them; no document is ever removed
NextGet ==
    \/ \E h \in Handlers, b \in SubmitBodies : SubmitPost(h, b)
    \/ \E h \in Handlers, reply \in AllSubmitReplies : SubmitPhaseA(h, reply)
    \/ \E h \in Handlers, reply \in AllSubmitReplies : SubmitPhaseB(h, reply)
    \/ \E h \in Handlers, reply \in LookupReplies, reply2 \in LookupReplies :
            RegisterLookup(h, reply, reply2)
    \/ \E h \in Handlers, dbok \in BOOLEAN : RegisterFind(h, dbok)
    \/ \E h \in Handlers, dbok \in BOOLEAN : RegisterInsert(h, dbok)
    \/ \E h \in Handlers, dbok \in BOOLEAN : RegisterNotify(h, dbok)
    \/ \E h \in Handlers, u \in UUIDs, dbok \in BOOLEAN : GetFind(h, u, dbok)
    \/ \E h \in Handlers, reply \in LookupReplies : GetLookup(h, reply)

SpecGet == Init /\ [][NextGet]_vars

\* the life of the registry's documents: registration, the poller, removal
LifeBodies ==
    {[monitor |-> [slurm_job_id |-> 2, task |-> Task(u, "echo_hello_world")]] : u \in UUIDs}

\* one request is served at a time, next to the poller
LifeHandlers == {1}

NextLife ==
    \/ \E h \in LifeHandlers, b \in LifeBodies : MonitorPost(h, b)
    \/ \E h \in LifeHandlers, reply \in LookupReplies : RegisterLookup(h, reply, NoReply)
    \/ \E h \in LifeHandlers, dbok \in BOOLEAN : RegisterFind(h, dbok)
    \/ \E h \in LifeHandlers, dbok \in BOOLEAN : RegisterInsert(h, dbok)
    \/ \E h \in LifeHandlers, dbok \in BOOLEAN : RegisterNotify(h, dbok)
    \/ \E h \in LifeHandlers, id \in DeleteIds, dbok \in BOOLEAN : DeleteFind(h, id, dbok)
    \/ \E h \in LifeHandlers, ssh \in SshOutcomes : DeleteScancel(h, ssh)
    \/ \E h \in LifeHandlers, dbok \in BOOLEAN : DeleteRemove(h, dbok)
    \/ \E dbok \in BOOLEAN : PollStart(dbok)
    \/ PollEnd
    \/ PollSkip
    \/ \E reply \in LookupReplies : PollLookup(reply)
    \/ \E dbok \in BOOLEAN : PollDispatch(dbok)
    \/ \E dbok \in BOOLEAN : PollUpdate(dbok)
    \/ Tick

SpecLife == Init /\ [][NextLife]_vars

\* the same, with the history of the poller's lookups kept
InitRetry ==
    /\ conn = ConnIdle
    /\ environ = SLURM_JWT_HS256_KEY_BASE64
    /\ upd = NoUpdate
    /\ mint = MintIdle
    /\ jobs = {}
    /\ nextRid = 1
    /\ slurmNextId = 1
    /\ now = 0
    /\ TASK_METADATA = TASK_METADATA_INIT
    /\ req = [h \in Handlers |-> Idle]
    /\ poll = [PollIdle EXCEPT !.track = TRUE]
    /\ sched = SchedIdle
    /\ dispatched = [rid \in {} |-> 0]
    /\ requests = 0
    /\ ticks = 0

\* two jobs of two tasks are registered
RetryBodies ==
    {[monitor |-> [slurm_job_id |-> 2, task |-> Task("u1", "echo_hello_world")]],
     [monitor |-> [slurm_job_id |-> 3, task |-> Task("u2", "echo_hello_world")]]}

NextRetry ==
    \/ \E h \in LifeHandlers, b \in RetryBodies : MonitorPost(h, b)
    \/ \E h \in LifeHandlers, reply \in LookupReplies : RegisterLookup(h, reply, NoReply)
    \/ \E h \in LifeHandlers, dbok \in BOOLEAN : RegisterFind(h, dbok)
    \/ \E h \in LifeHandlers, dbok \in BOOLEAN : RegisterInsert(h, dbok)
    \/ \E h \in LifeHandlers, dbok \in BOOLEAN : RegisterNotify(h, dbok)
    \/ \E dbok \in BOOLEAN : PollStart(dbok)
    \/ PollEnd
    \/ PollSkip
    \/ \E reply \in LookupReplies : PollLookup(reply)
    \/ \E dbok \in BOOLEAN : PollDispatch(dbok)
    \/ \E dbok \in BOOLEAN : PollUpdate(dbok)
    \/ Tick

SpecRetry == InitRetry /\ [][NextRetry]_vars

\* registrations of one job by two handler threads, next to the poller, over a
\* time long enough for a record to become older than the scan's maximum age
WindowBodies ==
    {[monitor |-> [slurm_job_id |-> 2, task |-> Task("u1", "echo_hello_world")]]}

NextWindow ==
    \/ \E h \in Handlers, b \in WindowBodies : MonitorPost(h, b)
    \/ \E h \in Handlers, reply \in LookupReplies : RegisterLookup(h, reply, NoReply)
    \/ \E h \in Handlers, dbok \in BOOLEAN : RegisterFind(h, dbok)
    \/ \E h \in Handlers, dbok \in BOOLEAN : RegisterInsert(h, dbok)
    \/ \E h \in Handlers, dbok \in BOOLEAN : RegisterNotify(h, dbok)
    \/ \E dbok \in BOOLEAN : PollStart(dbok)
    \/ PollEnd
    \/ PollSkip
    \/ \E reply \in LookupReplies : PollLookup(reply)
    \/ \E dbok \in BOOLEAN : PollDispatch(dbok)
    \/ \E dbok \in BOOLEAN : PollUpdate(dbok)
    \/ TickLate

SpecWindow == InitRetry /\ [][NextWindow]_vars

\* SLURM's answers that report the job in an end state
EndedReplies ==
    {reply \in LookupReplies :
        /\ reply.status = 200 /\ reply.jobs # <<>>
        /\ RestJobState(reply.jobs[1]) \in SLURM_STATE_END_STATES}

\* one job is registered by one handler thread, and the scheduler calls the
\* poller for ever
NextLive ==
    \/ \E h \in LifeHandlers, b \in WindowBodies : MonitorPost(h, b)
    \/ \E h \in LifeHandlers, reply \in LookupReplies : RegisterLookup(h, reply, NoReply)
    \/ \E h \in LifeHandlers, dbok \in BOOLEAN : RegisterFind(h, dbok)
    \/ \E h \in LifeHandlers, dbok \in BOOLEAN : RegisterInsert(h, dbok)
    \/ \E h \in LifeHandlers, dbok \in BOOLEAN : RegisterNotify(h, dbok)
    \/ \E dbok \in BOOLEAN : PollStartEver(dbok)
    \/ PollEnd
    \/ PollSkip
    \/ \E reply \in LookupReplies : PollLookup(reply)
    \/ \E dbok \in BOOLEAN : PollDispatch(dbok)
    \/ \E dbok \in BOOLEAN : PollUpdate(dbok)
    \/ Tick

\* the interval trigger fires again and again and the job's thread runs on
\* (weak fairness of each step of the tick); MongoDB answers the scan, the
\* dispatch's find and the write again and again, and SLURM reports the end
\* state again and again (strong fairness of the steps with these outcomes)
FairLive ==
    /\ WF_vars(\E dbok \in BOOLEAN : PollStartEver(dbok))
    /\ WF_vars(PollEnd)
    /\ WF_vars(PollSkip)
    /\ WF_vars(\E reply \in LookupReplies : PollLookup(reply))
    /\ WF_vars(\E dbok \in BOOLEAN : PollDispatch(dbok))
    /\ WF_vars(\E dbok \in BOOLEAN : PollUpdate(dbok))
    /\ SF_vars(PollStartEver(TRUE))
    /\ SF_vars(\E reply \in EndedReplies : PollLookup(reply))
    /\ SF_vars(PollDispatch(TRUE))
    /\ SF_vars(PollUpdate(TRUE))

SpecLive == Init /\ [][NextLive]_vars /\ FairLive

\* the scheduler alone: run times pass, the job is processed, instances run
NextSched ==
    \/ IntervalElapses
    \/ \E misfire \in BOOLEAN : SchedulerWakes(misfire)
    \/ JobRuns
    \/ JobDone

SpecSched == Init /\ [][NextSched]_vars

\* tasks that bring a notification policy of their own: a method the program
\* does not know, a method the catalog lists for the task with one parameter
\* changed, and two methods new to the task of which one has no parameters
NotifyTasks ==
    {[notification |-> [methods |-> <<"sms">>,
                        params |-> [sms |-> [number |-> "555"]]]]
        @@ Task("u1", "echo_hello_world"),
     [notification |-> [methods |-> <<"email">>,
                        params |-> [email |-> [recipient |-> "bob@example.org"]]]]
        @@ Task("u1", "echo_hello_world"),
     [notification |-> [methods |-> <<"gmail", "slack">>,
                        params |-> [gmail |-> [recipient |-> "bob@example.org"]]]]
        @@ Task("u2", "generic_task")}

NotifyBodies ==
    {[monitor |-> [slurm_job_id |-> 2, task |-> t]] : t \in NotifyTasks}

\* registrations and submissions of such tasks, and the poller
NextNotify ==
    \/ \E h \in LifeHandlers, t \in NotifyTasks : SubmitPost(h, [task |-> t])
    \/ \E h \in LifeHandlers, reply \in AllSubmitReplies : SubmitPhaseA(h, reply)
    \/ \E h \in LifeHandlers, reply \in AllSubmitReplies : SubmitPhaseB(h, reply)
    \/ \E h \in LifeHandlers, b \in NotifyBodies : MonitorPost(h, b)
    \/ \E h \in LifeHandlers, reply \in LookupReplies : RegisterLookup(h, reply, NoReply)
    \/ \E h \in LifeHandlers, dbok \in BOOLEAN : RegisterFind(h, dbok)
    \/ \E h \in LifeHandlers, dbok \in BOOLEAN : RegisterInsert(h, dbok)
    \/ \E h \in LifeHandlers, dbok \in BOOLEAN : RegisterNotify(h, dbok)
    \/ \E dbok \in BOOLEAN : PollStart(dbok)
    \/ PollEnd
    \/ PollSkip
    \/ \E reply \in LookupReplies : PollLookup(reply)
    \/ \E dbok \in BOOLEAN : PollDispatch(dbok)
    \/ \E dbok \in BOOLEAN : PollUpdate(dbok)
    \/ Tick

SpecNotify == Init /\ [][NextNotify]_vars

\* two jobs of the same task name are registered, the first with a policy of
\* its own, the second with none
PolicyBodies ==
    {[monitor |-> [slurm_job_id |-> 2,
                   task |-> [notification |-> [methods |-> <<"sms">>,
                                               params |-> [sms |-> [number |-> "555"]]]]
                            @@ Task("u1", "echo_hello_world")]],
     [monitor |-> [slurm_job_id |-> 3, task |-> Task("u2", "echo_hello_world")]]}

NextPolicy ==
    \/ \E h \in LifeHandlers, b \in PolicyBodies : MonitorPost(h, b)
    \/ \E h \in LifeHandlers, reply \in LookupReplies : RegisterLookup(h, reply, NoReply)
    \/ \E h \in LifeHandlers, dbok \in BOOLEAN : RegisterFind(h, dbok)
    \/ \E h \in LifeHandlers, dbok \in BOOLEAN : RegisterInsert(h, dbok)
    \/ \E h \in LifeHandlers, dbok \in BOOLEAN : RegisterNotify(h, dbok)
    \/ \E dbok \in BOOLEAN : PollStart(dbok)
    \/ PollEnd
    \/ PollSkip
    \/ \E reply \in LookupReplies : PollLookup(reply)
    \/ \E dbok \in BOOLEAN : PollDispatch(dbok)
    \/ \E dbok \in BOOLEAN : PollUpdate(dbok)
    \/ Tick

SpecPolicy == Init /\ [][NextPolicy]_vars

\* threads that call the constructor of the connection class at the same time
NextConn ==
    \/ \E t \in ConnThreads : ConnCheck(t)
    \/ \E t \in ConnThreads : ConnAcquire(t)
    \/ \E t \in ConnThreads : ConnCheckLocked(t)
    \/ \E t \in ConnThreads : ConnNew(t)
    \/ \E t \in ConnThreads : ConnClient(t)
    \/ \E t \in ConnThreads : ConnDb(t)
    \/ \E t \in ConnThreads : ConnRelease(t)
    \/ \E t \in ConnThreads : ConnReturn(t)

SpecConn == Init /\ [][NextConn]_vars

\* the state of jobs is written, again and again, while time passes
NextUpdate ==
    \/ \E id \in UpdateIds, st \in UpdateStates, dbok \in BOOLEAN : UpdateState(id, st, dbok)
    \/ Tick

SpecUpdate == InitUpdate /\ [][NextUpdate]_vars

\* tokens are minted while the clock runs
NextMint ==
    \/ \E username \in MintUsernames : MintCall(username)
    \/ MintExp
    \/ MintIat
    \/ MintClock

SpecMint == Init /\ [][NextMint]_vars

\* the process has started: the variable is set, to a key or to white space
InitSecret ==
    /\ conn = ConnIdle
    /\ environ \in {SLURM_JWT_HS256_KEY_BASE64, BlankKey}
    /\ upd = NoUpdate
    /\ mint = MintIdle
    /\ jobs = {}
    /\ nextRid = 1
    /\ slurmNextId = 1
    /\ now = 0
    /\ TASK_METADATA = TASK_METADATA_INIT
    /\ req = [h \in Handlers |-> Idle]
    /\ poll = PollIdle
    /\ sched = SchedIdle
    /\ dispatched = [rid \in {} |-> 0]
    /\ requests = 0
    /\ ticks = 0

\* every route that talks to slurmrestd, with and without a usable key
NextSecret ==
    \/ \E h \in LifeHandlers, b \in SubmitBodies : SubmitPost(h, b)
    \/ \E h \in LifeHandlers, reply \in AllSubmitReplies : SubmitPhaseA(h, reply)
    \/ \E h \in LifeHandlers, reply \in AllSubmitReplies : SubmitPhaseB(h, reply)
    \/ \E h \in LifeHandlers, b \in LifeBodies : MonitorPost(h, b)
    \/ \E h \in LifeHandlers, reply \in LookupReplies : RegisterLookup(h, reply, NoReply)
    \/ \E h \in LifeHandlers, dbok \in BOOLEAN : RegisterFind(h, dbok)
    \/ \E h \in LifeHandlers, dbok \in BOOLEAN : RegisterInsert(h, dbok)
    \/ \E h \in LifeHandlers, dbok \in BOOLEAN : RegisterNotify(h, dbok)
    \/ \E h \in LifeHandlers, k \in SlurmEndpoints, u \in SlurmUsernames,
          reply \in SlurmGetReplies : SlurmGet(h, k, u, reply)
    \/ \E dbok \in BOOLEAN : PollStart(dbok)
    \/ PollEnd
    \/ PollSkip
    \/ \E reply \in LookupReplies : PollLookup(reply)
    \/ \E dbok \in BOOLEAN : PollDispatch(dbok)
    \/ \E dbok \in BOOLEAN : PollUpdate(dbok)
    \/ Tick

SpecSecret == InitSecret /\ [][NextSecret]_vars

\* bodies that are JSON but hold no task and no job to monitor
NoObjectBodies ==
    {EmptyDict, JsonNull,
     [task |-> JsonNull], [task |-> EmptyDict],
     [monitor |-> JsonNull], [monitor |-> EmptyDict]}

\* requests with and without the object their route works on
NextBody ==
    \/ \E h \in LifeHandlers, b \in SubmitBodies \cup NoObjectBodies : SubmitPost(h, b)
    \/ \E h \in LifeHandlers, reply \in AllSubmitReplies : SubmitPhaseA(h, reply)
    \/ \E h \in LifeHandlers, reply \in AllSubmitReplies : SubmitPhaseB(h, reply)
    \/ \E h \in LifeHandlers, b \in LifeBodies \cup NoObjectBodies : MonitorPost(h, b)
    \/ \E h \in LifeHandlers, reply \in LookupReplies : RegisterLookup(h, reply, NoReply)
    \/ \E h \in LifeHandlers, dbok \in BOOLEAN : RegisterFind(h, dbok)
    \/ \E h \in LifeHandlers, dbok \in BOOLEAN : RegisterInsert(h, dbok)
    \/ \E h \in LifeHandlers, dbok \in BOOLEAN : RegisterNotify(h, dbok)

SpecBody == Init /\ [][NextBody]_vars

(***************************************************************************)
(* Properties of the submission pipeline.                                  *)
(***************************************************************************)
\* a POST /submit request that has been answered
Answered(h) == req[h].kind = "submit" /\ req[h].pc = "done"

\* C1: a POST /submit whose task.uuid is already in the registry is answered 400
\* at once: it sends nothing to SLURM and inserts nothing.
C1_DuplicateUuidRejected ==
    \A h \in Handlers :
        (req[h].kind = "submit" /\ req[h].dup) =>
            /\ req[h].pc = "done"
            /\ req[h].status = 400
            /\ req[h].rest = <<>>
            /\ req[h].inserted = 0

\* a submission was refused for its uuid while the registry held a document
C1_Witness ==
    \E h \in Handlers :
        /\ Answered(h) /\ req[h].dup /\ req[h].status = 400
        /\ \E r \in jobs : r.task.uuid = "u1"

\* C2: no two documents of the registry share a slurm_job_id or a task.uuid,
\* however POST /submit and POST /monitor interleave.
C2_UniqueIdAndUuid ==
    \A r1, r2 \in jobs :
        r1.rid # r2.rid =>
            /\ r1.slurm_job_id # r2.slurm_job_id
            /\ r1.task.uuid # r2.task.uuid

\* C3: the main job a submission sends carries the dependency afterok:<id>, with
\* <id> the job id SLURM gave that submission's own preliminary job.
C3_DependencyIsAfterokPrelim ==
    \A h \in Handlers :
        req[h].sent_dependency # <<>> =>
            /\ req[h].prelim_reply # BAD_SLURM_JOB_ID
            /\ req[h].sent_dependency = <<"afterok", req[h].prelim_reply>>

\* two submissions in flight: the one whose preliminary job came first sent its
\* main job after the other's preliminary job was accepted
C3_Witness ==
    \E h1, h2 \in Handlers :
        /\ h1 # h2
        /\ req[h1].kind = "submit" /\ req[h2].kind = "submit"
        /\ req[h1].prelim_reply = 1 /\ req[h2].prelim_reply = 2
        /\ req[h1].main_reply = 3
        /\ req[h1].sent_dependency = <<"afterok", 1>>

\* C4: when the preliminary job was accepted and the main job's submission came
\* back non-200 or without a job_id, the request is answered 400 and it has
\* inserted nothing and sent SLURM nothing but the two submissions.
C4_PhaseBFailureIs400 ==
    \A h \in Handlers :
        (/\ Answered(h)
         /\ req[h].prelim_reply # BAD_SLURM_JOB_ID
         /\ Len(req[h].rest) >= 2
         /\ req[h].main_reply = BAD_SLURM_JOB_ID) =>
            /\ req[h].status = 400
            /\ req[h].rest = <<"submit", "submit">>
            /\ req[h].inserted = 0

\* C5: when the preliminary job's submission came back non-200 or without a
\* job_id, the request is answered 400, the main job is never sent and nothing
\* is inserted.
C5_PhaseAFailureIs400 ==
    \A h \in Handlers :
        (/\ Answered(h)
         /\ req[h].rest # <<>>
         /\ req[h].prelim_reply = BAD_SLURM_JOB_ID) =>
            /\ req[h].status = 400
            /\ req[h].rest = <<"submit">>
            /\ req[h].inserted = 0

\* C6: when both submissions came back with a job id, the request is answered
\* 200 with {uuid, slurm_job_id} and has inserted one document, of the main
\* job's id and (until a poller's update) in state UNKNOWN.
C6_AcceptedSubmissionRegistered ==
    \A h \in Handlers :
        (/\ Answered(h)
         /\ req[h].prelim_reply # BAD_SLURM_JOB_ID
         /\ req[h].main_reply # BAD_SLURM_JOB_ID) =>
            /\ req[h].status = 200
            /\ DOMAIN req[h].body = {"uuid", "slurm_job_id"}
            /\ req[h].body.slurm_job_id = req[h].main_reply
            /\ req[h].inserted # 0
            /\ \A r \in jobs :
                   r.rid = req[h].inserted =>
                       /\ r.slurm_job_id = req[h].main_reply
                       /\ (r.updated_at = NoTime =>
                               r.slurm_job_state = SLURM_STATE_UNKNOWN)

C8_AtMostOneDispatch ==
    \A rid \in DOMAIN dispatched : dispatched[rid] <= 1

\* the number of times rid occurs in calls
Occurrences(calls, rid) == Cardinality({i \in 1..Len(calls) : calls[i] = rid})

\* C9: when a tick is over, every document it found not in an end state with
\* SLURM reporting end state s was dispatched once by it and is in state s.
C9_TerminalTransitionDispatchedAndStored ==
    poll.pc = "idle" =>
        \A e \in poll.ended :
            /\ Occurrences(poll.calls, e[1]) = 1
            /\ \E r \in jobs : r.rid = e[1] /\ r.slurm_job_state = e[2]

\* C11: when SLURM reports, for a document not in an end state, a state string
\* outside the vocabulary, the poller takes it as UNKNOWN, does not call
\* process_job_state_change for the document, and once its update has reached
\* MongoDB the document is in state UNKNOWN.
C11_UnknownStateNormalised ==
    (poll.raw # "" /\ poll.raw \notin SLURM_STATES_ALLOWED) =>
        /\ poll.pc # "dispatch"
        /\ poll.new_state = SLURM_STATE_UNKNOWN
        /\ Occurrences(poll.calls, poll.job.rid) = 0
        /\ poll.wrote =>
               \A r \in jobs : r.rid = poll.job.rid =>
                   r.slurm_job_state = SLURM_STATE_UNKNOWN

\* the poller has written UNKNOWN over the state of a document after SLURM
\* reported a string outside the vocabulary
C11_Witness ==
    /\ poll.raw # "" /\ poll.raw \notin SLURM_STATES_ALLOWED
    /\ poll.wrote
    /\ \E r \in jobs : /\ r.rid = poll.job.rid
                       /\ poll.job.slurm_job_state # SLURM_STATE_UNKNOWN
                       /\ r.slurm_job_state = SLURM_STATE_UNKNOWN
                       /\ r.updated_at # NoTime

\* C10: the state of every document is a SLURM state or UNKNOWN.
C10_StateInVocabulary ==
    \A r \in jobs : r.slurm_job_state \in SLURM_STATES_ALLOWED \cup {SLURM_STATE_UNKNOWN}

\* a job whose state SLURM reported as a string outside the vocabulary was
\* registered, as UNKNOWN
C10_Witness ==
    \E r \in jobs : r.slurm_job_state = SLURM_STATE_UNKNOWN /\ r.updated_at = NoTime

(***************************************************************************)
(* Properties of DELETE /monitor/slurm_job_id/<id>.                        *)
(***************************************************************************)
Deleted(h) == req[h].kind = "delete" /\ req[h].pc = "done"

\* C12: a DELETE for an id that has no document in the registry is answered
\* with 404, issues no scancel and removes nothing.
C12_UnregisteredDeleteIs404 ==
    \A h \in Handlers :
        (Deleted(h) /\ ~req[h].found) =>
            /\ req[h].status = 404
            /\ req[h].scancel = "none" /\ req[h].rest = <<>>
            /\ req[h].removed = 0

\* the part of C12 that the code keeps: no scancel, nothing removed
C12_Witness ==
    \E h \in Handlers :
        /\ Deleted(h) /\ ~req[h].found /\ jobs # {}
        /\ req[h].scancel = "none" /\ req[h].removed = 0

\* C13: a DELETE for a registered id issues scancel before it removes anything;
\* it removes a document only after scancel exited with 0 and then answers 200
\* with the removed document; when scancel fails or the transport errors it
\* removes nothing and answers with an error.
C13_RemovedOnlyAfterScancel ==
    \A h \in Handlers :
        req[h].kind = "delete" =>
            /\ req[h].removed # 0 =>
                   req[h].scancel = "exit0" /\ req[h].rest = <<"scancel">>
            /\ (req[h].pc = "done" /\ req[h].scancel \notin {"none", "exit0"}) =>
                   req[h].removed = 0 /\ req[h].status \in {400, 500}
            /\ (req[h].pc = "done" /\ req[h].removed # 0) =>
                   /\ req[h].status = 200
                   /\ HasKey(req[h].body, "rid") /\ req[h].body.rid = req[h].removed

\* a document was removed after a successful scancel
C13_Witness ==
    \E h \in Handlers :
        /\ Deleted(h) /\ req[h].found /\ req[h].scancel = "exit0"
        /\ req[h].removed # 0 /\ \A r \in jobs : r.rid # req[h].removed

(***************************************************************************)
(* Properties of the SLURM REST token.                                     *)
(***************************************************************************)
\* C14: a token minted at time t has iat = t and exp = t + TTL, so exp - iat is
\* the TTL exactly whatever the clock does while the token is built (t is the
\* second the token's iat names), and its sun is the username, or "generic" for
\* an empty username.
C14_TokenLifetimeIsTTL ==
    mint.pc = "done" =>
        /\ mint.exp = mint.iat + SLURM_REST_JWT_EXPIRATION_TIME
        /\ mint.exp - mint.iat = SLURM_REST_JWT_EXPIRATION_TIME
        /\ mint.sun = IF mint.username = "" THEN SLURM_REST_GENERIC_USERNAME
                      ELSE mint.username

\* a token for an empty username, minted while the clock stood still
C14_Witness ==
    /\ mint.pc = "done" /\ mint.username = "" /\ mint.sun = SLURM_REST_GENERIC_USERNAME
    /\ mint.called = mint.clock /\ mint.called > 0
    /\ mint.exp - mint.iat = SLURM_REST_JWT_EXPIRATION_TIME

(***************************************************************************)
(* Properties of the validation of submissions.                            *)
(***************************************************************************)
\* C15: a POST /submit whose task lacks a required key, names no task of the
\* catalog or has no command is answered with 400, sends nothing to SLURM and
\* inserts nothing.
C15_InvalidTaskRejected ==
    \A h \in Handlers :
        (req[h].kind = "submit" /\ req[h].invalid) =>
            /\ req[h].rest = <<>>
            /\ req[h].inserted = 0
            /\ req[h].pc = "done" => req[h].status = 400

\* a task without its required keys was turned away
C15_Witness ==
    \E h \in Handlers :
        /\ Answered(h) /\ req[h].invalid /\ req[h].status = 400
        /\ req[h].rest = <<>> /\ req[h].inserted = 0

(***************************************************************************)
(* Properties of registration.                                             *)
(***************************************************************************)
\* the lookups of a job's state among the requests a handler sent to SLURM
Lookups(rest) == {i \in 1..Len(rest) : rest[i] = "job"}

\* C16: a registration (POST /monitor, or the insert step of POST /submit) whose
\* slurm_job_id or task uuid is already in the registry is answered with 400,
\* and SLURM is not contacted while it is handled.
C16_DuplicateRegistrationRejected ==
    \A h \in Handlers :
        req[h].present =>
            /\ Lookups(req[h].rest) = {}
            /\ req[h].inserted = 0
            /\ req[h].pc = "done" => req[h].status = 400

\* a registration of an id already in the registry was handled without an insert
C16_Witness ==
    \E h \in Handlers :
        /\ req[h].kind = "monitor" /\ req[h].pc = "done" /\ req[h].present
        /\ req[h].inserted = 0 /\ jobs # {}

(***************************************************************************)
(* Properties of GET /monitor/task_uuid/<uuid>.                            *)
(***************************************************************************)
\* C17: a GET /monitor/task_uuid/<uuid> that follows a POST /submit of task T
\* answered with 200 and slurm_job_id j (no DELETE between the two) returns a
\* record whose task is T and whose slurm_job_id is j (MongoDB and SLURM
\* answering: the GET is not turned away with 404).
C17_GetReturnsSubmittedRecord ==
    \A h \in Handlers :
        (/\ req[h].kind = "get" /\ req[h].pc = "done" /\ req[h].expect # {}
         /\ req[h].status # 404) =>
            /\ req[h].status = 200
            /\ HasKey(req[h].body, "monitor")
            /\ \E e \in req[h].expect :
                   /\ req[h].body.monitor.task = e.task
                   /\ req[h].body.monitor.slurm_job_id = e.slurm_job_id

\* the GET found the document of the accepted submission in the registry
C17_Witness ==
    \E h \in Handlers :
        /\ req[h].kind = "get" /\ req[h].pc = "getlookup"
        /\ \E e \in req[h].expect :
               e.task = req[h].task /\ e.slurm_job_id = req[h].slurm_job_id

(***************************************************************************)
(* Properties of the registry's documents.                                 *)
(***************************************************************************)
\* a collection without the updated_at of its documents
WithoutUpdatedAt(coll) == {[r EXCEPT !.updated_at = NoTime] : r \in coll}

\* C18: update_job_state_in_monitor_db called again with the same id and state
\* on an existing document changes nothing but updated_at: the documents and
\* all their other fields are as the first call left them.
C18_RepeatedUpdateIsNoOp ==
    upd.again => WithoutUpdatedAt(jobs) = WithoutUpdatedAt(upd.before)

\* the second call refreshed updated_at of a document and nothing else
C18_Witness ==
    /\ upd.again /\ upd.reached
    /\ jobs # upd.before
    /\ \E r \in jobs : r.slurm_job_id = upd.slurm_job_id /\ r.updated_at = MaxTime
                         /\ r.slurm_job_state = upd.state

\* the _ids of a collection, and what is a document's for life
Rids(coll) == {r.rid : r \in coll}
Identity(coll) ==
    {[rid |-> r.rid, task |-> r.task, slurm_username |-> r.slurm_username,
      slurm_job_id |-> r.slurm_job_id, created_at |-> r.created_at] : r \in coll}

\* C19: a document appears only in the insert of a registration (POST /monitor
\* or POST /submit) and disappears only in the removal of a DELETE; a step of
\* the poller leaves the set of documents and each document's task,
\* slurm_username, slurm_job_id and created_at as they are, and so does any
\* step for the documents that stay.
C19_RecordLifecycle ==
    [][/\ Rids(jobs') \ Rids(jobs) # {} =>
              \E h \in Handlers : /\ req[h].kind \in {"submit", "monitor"}
                                  /\ req[h].pc = "insert"
                                  /\ req'[h].inserted \in Rids(jobs')
       /\ Rids(jobs) \ Rids(jobs') # {} =>
              \E h \in Handlers : /\ req[h].kind = "delete" /\ req[h].pc = "remove"
                                  /\ req'[h].removed \in Rids(jobs)
       /\ poll' # poll => Identity(jobs') = Identity(jobs)
       /\ \A r \in Identity(jobs) : r.rid \in Rids(jobs') => r \in Identity(jobs')
      ]_vars

\* a tick has rewritten, later than the document was created, the state of a
\* document, which is otherwise as it was read
C19_Witness ==
    /\ poll.wrote
    /\ \E r \in jobs : /\ r.rid = poll.job.rid
                        /\ r.slurm_job_state # poll.job.slurm_job_state
                        /\ r.updated_at > r.created_at
                        /\ Identity({r}) = Identity({poll.job})

(***************************************************************************)
(* Properties of the username.                                             *)
(***************************************************************************)
\* C20: an empty username is replaced by "generic" wherever it is used: no
\* token sent to SLURM carries an empty sun, and no document created by a
\* submission holds an empty slurm_username (the user of a task without a name
\* is "generic" in both).
C20_EmptyUsernameIsGeneric ==
    /\ \A h \in Handlers : "" \notin req[h].suns
    /\ \A r \in jobs : r.slurm_username # ""
    /\ \A r \in jobs : r.task.username = "" =>
           r.slurm_username = SLURM_REST_GENERIC_USERNAME

\* both submissions and the lookup of a task without a username went to SLURM
\* as user "generic"
C20_Witness ==
    \E h \in Handlers :
        /\ req[h].kind = "submit" /\ req[h].pc = "find"
        /\ req[h].task.username = ""
        /\ req[h].rest = <<"submit", "submit", "job">>
        /\ req[h].suns = {SLURM_REST_GENERIC_USERNAME}

(***************************************************************************)
(* Properties of a process without a usable JWT key.                       *)
(***************************************************************************)
\* the routes whose only work is a call to slurmrestd
NeedsSlurm(h) == req[h].kind \in {"submit", "monitor"} \cup SlurmEndpoints

\* C21: when no JWT key can be read, no token is minted: no request goes to
\* slurmrestd, the registry is not written, and every answered submission,
\* registration with lookup, diag, list and job query is answered 400.
C21_NoKeyNoRequest ==
    get_slurm_rest_jwt_private_key_via_env = "" =>
        /\ jobs = {}
        /\ poll.looked = {}
        /\ \A u \in SlurmUsernames :
              /\ ~get_slurm_rest_jwt_token_for_username(
                      u, get_slurm_rest_jwt_private_key_via_env).ok
              /\ \A reply \in LookupReplies :
                    get_job_info_for_job_id_via_params(u, reply).code = 400
        /\ \A h \in Handlers :
              /\ req[h].rest = <<>>
              /\ req[h].suns = {}
              /\ req[h].inserted = 0
              /\ (NeedsSlurm(h) /\ req[h].pc = "done") => req[h].status = 400

\* without a key: a well-formed new submission, a registration and a diag
\* query have each been answered
C21_Witness ==
    /\ get_slurm_rest_jwt_private_key_via_env = ""
    /\ \E h \in Handlers :
          /\ req[h].pc = "done" /\ req[h].status = 400
          /\ \/ req[h].kind = "submit" /\ ~req[h].invalid /\ ~req[h].dup
             \/ req[h].kind = "diag"

(***************************************************************************)
(* Properties of requests without the object their route works on.         *)
(***************************************************************************)
\* C22: a POST /submit whose body has no task object, and a POST /monitor whose
\* body has no job to monitor, is answered 400 at once; nothing is sent to
\* SLURM and the registry is left as it was.
C22_NoObjectIs400 ==
    [][\A h \in Handlers, b \in NoObjectBodies :
          ((SubmitPost(h, b) /\ ~HasKey(b, "task"))
           \/ (MonitorPost(h, b) /\ ~HasKey(b, "monitor"))) =>
              /\ req'[h].pc = "done"
              /\ req'[h].status = 400
              /\ req'[h].rest = <<>>
              /\ jobs' = jobs]_vars

\* a POST /monitor has ended in an exception before any lookup, and the registry
\* holds a document written by an earlier request
C22_Witness ==
    \E h \in Handlers :
        /\ req[h].kind = "monitor" /\ req[h].pc = "done"
        /\ req[h].status = 500 /\ req[h].rest = <<>>
        /\ jobs # {}

(***************************************************************************)
(* The order of the steps of one submission.                               *)
(***************************************************************************)
\* C23: within one submission the preliminary job has been submitted and SLURM
\* has answered with its id before the main job is submitted, and the registry
\* is written for the submission only after both submissions were sent and
\* answered with a job id: no write precedes either of them.
C23_PhaseAThenPhaseBThenInsert ==
    \A h \in Handlers :
        req[h].kind = "submit" =>
            /\ req[h].pc = "phaseA" => (req[h].rest = <<>> /\ req[h].inserted = 0)
            /\ req[h].pc = "phaseB" =>
                  /\ req[h].rest = <<"submit">>
                  /\ req[h].prelim_reply # BAD_SLURM_JOB_ID
                  /\ req[h].main_reply = BAD_SLURM_JOB_ID
                  /\ req[h].inserted = 0
            /\ req[h].main_reply # BAD_SLURM_JOB_ID =>
                  req[h].prelim_reply # BAD_SLURM_JOB_ID
            /\ req[h].pc \in {"lookup", "find", "insert"} => req[h].inserted = 0
            /\ req[h].inserted > 0 =>
                  /\ Len(req[h].rest) >= 2
                  /\ req[h].rest[1] = "submit" /\ req[h].rest[2] = "submit"
                  /\ req[h].prelim_reply # BAD_SLURM_JOB_ID
                  /\ req[h].main_reply # BAD_SLURM_JOB_ID

\* a submission went through both phases and then wrote its document
C23_Witness ==
    \E h \in Handlers :
        /\ req[h].kind = "submit" /\ req[h].pc = "done"
        /\ req[h].inserted = 1
        /\ req[h].rest = <<"submit", "submit", "job">>
        /\ req[h].main_reply = req[h].prelim_reply + 1

(***************************************************************************)
(* Properties of the poller's handling of one record.                      *)
(***************************************************************************)
\* C24: in every tick, when the poller writes an end state for a record that was
\* not in an end state, it has called process_job_state_change for that record
\* just before, in the same tick: the write never comes first, so a failure
\* between the two leaves the record to be notified again on a later tick.
C24_DispatchBeforeTerminalWrite ==
    [][(poll.pc = "update" /\ poll'.pc = "scan"
        /\ poll.new_state \in SLURM_STATE_END_STATES) =>
            /\ ~IsEndState(poll.job.slurm_job_state)
            /\ poll.calls # <<>>
            /\ poll.calls[Len(poll.calls)] = poll.job.rid
            /\ \A d \in jobs' \ jobs :
                  d.slurm_job_id = poll.job.slurm_job_id
                  /\ d.slurm_job_state = poll.new_state]_vars

\* the poller called process_job_state_change for a record and then stored its
\* end state
C24_Witness ==
    /\ poll.pc = "scan" /\ poll.wrote
    /\ poll.new_state \in SLURM_STATE_END_STATES
    /\ Occurrences(poll.calls, poll.job.rid) = 1
    /\ \E d \in jobs : d.rid = poll.job.rid /\ d.slurm_job_state = poll.new_state

\* the lookup of the record at the head of the cursor yields nothing for reply
YieldsNothing(reply) ==
    /\ poll.pc = "scan" /\ poll.cursor # <<>>
    /\ get_current_slurm_job_metadata_by_slurm_job_id_via_rest(
           Head(poll.cursor).slurm_job_id,
           DictGet(Head(poll.cursor).task, "username", SLURM_REST_GENERIC_USERNAME),
           reply).kind = "none"

\* C25: when the live lookup for a record that is not in an end state yields
\* nothing, the poller leaves the registry as it is and calls no notifier, and
\* the tick after that one looks the record up again: once that tick is over,
\* every record the tick before it had got nothing for, and that is still in the
\* registry and not in an end state, has been asked for.
C25_NothingFoundIsRetried ==
    [][/\ \A reply \in LookupReplies :
             (YieldsNothing(reply) /\ PollLookup(reply)) =>
                 /\ jobs' = jobs
                 /\ dispatched' = dispatched
                 /\ poll'.calls = poll.calls
                 /\ poll'.pc = "scan"
       /\ poll'.pc = "idle" =>
             \A rid \in poll'.retry :
                 (\E d \in jobs' : d.rid = rid /\ ~IsEndState(d.slurm_job_state)) =>
                     rid \in poll'.looked]_vars

\* a tick got nothing for a record; the tick after it is over, the record is
\* there as it was, and that tick has not asked for it
C25_Witness ==
    /\ poll.pc = "idle" /\ ticks = 2
    /\ \E d \in jobs :
          /\ d.rid \in poll.retry /\ d.rid \notin poll.looked
          /\ ~IsEndState(d.slurm_job_state)
          /\ d.updated_at = NoTime

C27_NotifierFailureContained ==
    [][\A dbok \in BOOLEAN :
          PollDispatch(dbok) =>
              LET out == process_job_state_change(jobs, TASK_METADATA,
                             poll.job.slurm_job_id, poll.new_state, dbok)
              IN  /\ out.exc = ""
                  /\ Len(out.sent) = Len(out.methods)
                  /\ poll'.pc = "update"]_vars

\* a dispatch for a record of the registry has ended the tick: the record is
\* still not in an end state although SLURM reported one
C27_Witness ==
    /\ poll.pc = "idle" /\ poll.calls # <<>>
    /\ \E d \in jobs, e \in poll.ended :
          /\ d.rid = poll.calls[Len(poll.calls)] /\ e[1] = d.rid
          /\ ~IsEndState(d.slurm_job_state)
          /\ dispatched[d.rid] >= 1

\* the policy names a method that is none of email, gmail, rabbitmq, slack, test
HasUnknownTag(methods) ==
    \E i \in 1..Len(methods) : methods[i].tag \notin NotificationMethodValues

\* C28: a dispatch whose policy holds a method that is none of EMAIL, GMAIL,
\* SLACK, RABBITMQ, TEST returns false; no exception reaches the poller, which
\* goes on, or the handler, which does not answer 500.
C28_UnknownMethodReturnsFalse ==
    [][\A dbok \in BOOLEAN :
          /\ PollDispatch(dbok) =>
                LET out == process_job_state_change(jobs, TASK_METADATA,
                               poll.job.slurm_job_id, poll.new_state, dbok)
                IN  HasUnknownTag(out.methods) =>
                        (out.exc = "" /\ ~out.ret /\ poll'.pc = "update")
          /\ \A h \in Handlers :
                RegisterNotify(h, dbok) =>
                    LET out == process_job_state_change(jobs, TASK_METADATA,
                                   req[h].slurm_job_id, req[h].state, dbok)
                    IN  HasUnknownTag(out.methods) =>
                            (out.exc = "" /\ ~out.ret /\ req'[h].status # 500)]_vars

\* a dispatch for a record whose task names the method sms has ended the tick
C28_Witness ==
    /\ poll.pc = "idle" /\ poll.calls # <<>>
    /\ \E d \in jobs :
          /\ d.rid = poll.calls[Len(poll.calls)]
          /\ HasKey(d.task, "notification")
          /\ d.task.notification.methods = <<"sms">>
          /\ ~IsEndState(d.slurm_job_state)
    /\ HasUnknownTag(TASK_METADATA.echo_hello_world.methods)

\* the tags of a list of methods, and a task's own policy ({} when it has none)
TagsOf(methods) == {methods[i].tag : i \in 1..Len(methods)}
CustomOf(task) ==
    IF HasKey(task, "notification") THEN task.notification
    ELSE [methods |-> <<>>, params |-> EmptyDict]

\* defaults overlaid key by key with overrides
Overlay(defaults, overrides) ==
    [k \in DOMAIN defaults \cup DOMAIN overrides |->
        IF k \in DOMAIN overrides THEN overrides[k] ELSE defaults[k]]

\* the dispatch that returned out for the catalog it started with has used the
\* union of the catalog's and the task's methods, each with the catalog's
\* parameters overlaid with the task's
MergedAsUnionWithOverlay(out, catalog) ==
    out.methods # <<>> =>
        LET d == CHOOSE r \in jobs : r.rid = out.rid
            entry == catalog[d.task.name]
            custom == CustomOf(d.task)
            want == TagsOf(entry.methods) \cup {custom.methods[i] : i \in 1..Len(custom.methods)}
            params == out.catalog[d.task.name].params
        IN  /\ TagsOf(entry.methods) \subseteq TagsOf(out.methods)
            /\ TagsOf(out.methods) = want
            /\ \A m \in want :
                  /\ HasKey(params, m)
                  /\ params[m] = Overlay(DictGet(entry.params, m, EmptyDict),
                                         DictGet(custom.params, m, EmptyDict))

\* C29: the policy a dispatch works with is the union of the catalog's methods
\* for the task name and the methods of task.notification; no catalog method is
\* missing from it, and the parameters of each method are the catalog's
\* defaults overlaid key by key with the task's, also for a method the catalog
\* lists itself.
C29_PolicyIsUnionWithOverlay ==
    [][\A dbok \in BOOLEAN :
          /\ PollDispatch(dbok) =>
                MergedAsUnionWithOverlay(
                    process_job_state_change(jobs, TASK_METADATA, poll.job.slurm_job_id,
                                             poll.new_state, dbok),
                    TASK_METADATA)
          /\ \A h \in Handlers :
                RegisterNotify(h, dbok) =>
                    MergedAsUnionWithOverlay(
                        process_job_state_change(jobs, TASK_METADATA, req[h].slurm_job_id,
                                                 req[h].state, dbok),
                        TASK_METADATA)]_vars

\* a dispatch has merged a task's own email recipient: the email parameters it
\* worked with hold nothing but that recipient
C29_Witness ==
    /\ \E d \in jobs :
          /\ HasKey(d.task, "notification")
          /\ d.task.notification.methods = <<"email">>
          /\ d.rid \in DOMAIN dispatched /\ dispatched[d.rid] >= 1
    /\ DOMAIN TASK_METADATA.echo_hello_world.params.email = {"recipient"}
    /\ TagsOf(TASK_METADATA.echo_hello_world.methods) =
           TagsOf(TASK_METADATA_INIT.echo_hello_world.methods)

(***************************************************************************)
(* Properties of the task catalog.                                         *)
(***************************************************************************)
\* C30: the catalog is read-only once the program has started: no step of a
\* submission, a registration or a poller tick, a dispatch for a record with a
\* policy of its own included, changes a method list or a parameter bag of it.
C30_CatalogIsReadOnly ==
    [][TASK_METADATA' = TASK_METADATA]_vars

\* a poller tick has dispatched for a record whose task has a policy of its own,
\* and the catalog's list for the task name is longer than it was
C30_Witness ==
    /\ poll.calls # <<>>
    /\ \E d \in jobs :
          /\ d.rid = poll.calls[Len(poll.calls)]
          /\ HasKey(d.task, "notification")
          /\ Len(TASK_METADATA[d.task.name].methods) >
                 Len(TASK_METADATA_INIT[d.task.name].methods)

(***************************************************************************)
(* Properties of the poller's scan.                                        *)
(***************************************************************************)
\* the documents older than the maximum age when the tick built its query
TooOld(coll, t) ==
    {r \in coll : r.created_at < t - MONGODB_MONITOR_JOB_CREATED_AT_MAX_AGE}

\* C31: a tick of the poller touches only the records created within the
\* maximum age before the time of its scan: for a record older than that it
\* looks nothing up in SLURM, calls no notifier and leaves the record as it is.
C31_OldRecordsLeftAlone ==
    [][/\ \A reply \in LookupReplies :
             PollLookup(reply) =>
                 (poll'.looked \ poll.looked) \cap {r.rid : r \in TooOld(jobs, poll.at)} = {}
       /\ \A dbok \in BOOLEAN :
             PollDispatch(dbok) =>
                 process_job_state_change(jobs, TASK_METADATA, poll.job.slurm_job_id,
                                          poll.new_state, dbok).rid
                     \notin {r.rid : r \in TooOld(jobs, poll.at)}
       /\ \A dbok \in BOOLEAN :
             PollUpdate(dbok) => TooOld(jobs, poll.at) \subseteq jobs']_vars

\* a tick that scanned while the registry held a record older than the maximum
\* age has looked up a younger record of the same job and has reached the
\* dispatch for it
C31_Witness ==
    /\ poll.pc = "dispatch"
    /\ \E r \in TooOld(jobs, poll.at) : r.slurm_job_id = poll.job.slurm_job_id
    /\ poll.job \notin TooOld(jobs, poll.at)

\* the documents a cursor still holds
InCursor(cursor) == {cursor[i] : i \in 1..Len(cursor)}

InsertedEnded(d) ==
    d.updated_at = NoTime /\ d.slurm_job_state \in SLURM_STATE_END_STATES

\* C33: when the job of a submission is in an end state already as its record
\* is inserted, the registration calls the dispatch for that record right away,
\* the record is dispatched for exactly once, and no tick of the poller calls
\* the dispatch for it.
C33_EndedAtInsertDispatchedOnce ==
    [][/\ \A h \in Handlers, dbok \in BOOLEAN :
             (RegisterInsert(h, dbok) /\ req[h].state \in SLURM_STATE_END_STATES)
                 => req'[h].pc = "notify"
       /\ \A h \in Handlers :
             (RegisterNotify(h, TRUE) /\ req[h].inserted # 0)
                 => \E d \in jobs : /\ d.slurm_job_id = req[h].slurm_job_id
                                    /\ d.rid \in DOMAIN dispatched'
       /\ \A d \in jobs :
             (InsertedEnded(d) /\ d.rid \in DOMAIN dispatched') => dispatched'[d.rid] = 1
       /\ \A dbok \in BOOLEAN :
             PollDispatch(dbok) =>
                 \A d \in jobs :
                     InsertedEnded(d) =>
                         process_job_state_change(jobs, TASK_METADATA, poll.job.slurm_job_id,
                                                  poll.new_state, dbok).rid # d.rid]_vars

\* a submission has inserted the record of a job that had ended, the dispatch
\* was called for it, and a later tick of the poller has passed the record by
C33_Witness ==
    /\ \E h \in Handlers, d \in jobs :
          /\ req[h].kind = "submit" /\ req[h].pc = "done"
          /\ req[h].inserted = d.rid
          /\ InsertedEnded(d)
          /\ d.rid \in DOMAIN dispatched
          /\ d.rid \in poll.frozen
    /\ poll.pc = "scan"
    /\ poll.cursor = <<>>

(***************************************************************************)
(* Properties of the shared SSH client.                                    *)
(***************************************************************************)
\* C34: the uses of the shared SSH client exclude each other: at no time are
\* two threads (two DELETE /monitor/slurm_job_id requests, say) between connect
\* and the return of exec_command on the one client.
C34_SshClientUsedByOneThread ==
    Cardinality({h \in Handlers : req[h].in_ssh}) <= 1

\* a DELETE request has called connect on the client and waits for exec_command
C34_Witness ==
    \E h \in Handlers :
        /\ req[h].kind = "delete"
        /\ req[h].in_ssh
        /\ req[h].found

(***************************************************************************)
(* Properties of a tick that meets a failure.                              *)
(***************************************************************************)
\* the documents a tick has yet to visit once the step it is about to take is over
StillToVisit(p) ==
    IF p.pc = "scan" /\ p.cursor # <<>> THEN Tail(p.cursor) ELSE p.cursor

\* C35: within a tick of the poller a failure met while one record is handled
\* (a lookup, a state write or a notifier that fails, a task name the catalog
\* does not hold) does not keep the later records of the scan from being looked
\* up: the tick ends only when its cursor holds no further record.
C35_FailureDoesNotEndTick ==
    [][(poll.pc # "idle" /\ poll'.pc = "idle") => StillToVisit(poll) = <<>>]_vars

\* a tick is about to dispatch for a record while its cursor holds another
C35_Witness ==
    /\ poll.pc = "dispatch"
    /\ poll.cursor # <<>>
    /\ poll.job \in jobs

(***************************************************************************)
(* Liveness of the reconciliation.                                         *)
(***************************************************************************)
\* the registry holds a record that is not in an end state
HasOpenRecord == \E d \in jobs : ~IsEndState(d.slurm_job_state)

\* C36: if ticks keep coming and the lookups and the registry's writes succeed
\* in the end, a record of the scan window whose job has ended is in an end
\* state in the registry in the end, and from then on no tick looks it up.
C36_EndedJobIsRecordedInTheEnd ==
    /\ HasOpenRecord ~> ~HasOpenRecord
    /\ [][\A reply \in LookupReplies :
             PollLookup(reply) => ~IsEndState(Head(poll.cursor).slurm_job_state)]_vars

\* a tick is about to dispatch for a record that is not in an end state and
\* whose job SLURM reports as ended
C36_Witness ==
    /\ poll.pc = "dispatch"
    /\ poll.job \in jobs
    /\ ~IsEndState(poll.job.slurm_job_state)
    /\ poll.new_state \in SLURM_STATE_END_STATES
    /\ ticks = MaxTicks

(***************************************************************************)
(* Properties of the answer of a submission.                               *)
(***************************************************************************)
\* the step answers the submission handler h serves with 200
AnswersSubmit200(h) ==
    /\ req[h].kind = "submit" /\ req[h].pc # "done"
    /\ req'[h].pc = "done" /\ req'[h].status = 200

\* C37: a 200 answer of POST /submit with {uuid, slurm_job_id} is given only
\* when the registry holds, as the answer is produced, a record with that
\* task.uuid and that slurm_job_id.
C37_AnswerNamesARegisteredRecord ==
    [][\A h \in Handlers :
          AnswersSubmit200(h) =>
              \E r \in jobs' :
                  /\ HasKey(r.task, "uuid")
                  /\ r.task.uuid = req'[h].body.uuid
                  /\ r.slurm_job_id = req'[h].body.slurm_job_id]_vars

\* a submission was answered 200 and has inserted nothing
C37_Witness ==
    \E h \in Handlers :
        /\ Answered(h)
        /\ req[h].status = 200
        /\ req[h].inserted = 0

(***************************************************************************)
(* Properties of a DELETE that meets a tick of the poller.                 *)
(***************************************************************************)
\* C38: the poller never brings back a record a DELETE has removed: when the
\* DELETE comes between the tick's scan and its state write, the write inserts
\* nothing, no step of the tick adds a document, and the registry is left
\* without a record for the id.
C38_PollerNeverRecreates ==
    [][/\ poll' # poll => Rids(jobs') = Rids(jobs)
       /\ \A dbok \in BOOLEAN :
             (PollUpdate(dbok) /\ ById(jobs, poll.job.slurm_job_id) = {}) =>
                 /\ jobs' = jobs
                 /\ ById(jobs', poll.job.slurm_job_id) = {}]_vars

\* a tick has written the state of a job whose record a DELETE had removed
\* after the tick's scan, and the registry holds no record for the id
C38_Witness ==
    /\ poll.pc = "scan"
    /\ poll.wrote
    /\ poll.job.rid # 0
    /\ \E h \in Handlers :
          /\ req[h].kind = "delete" /\ req[h].pc = "done"
          /\ req[h].removed = poll.job.rid
    /\ ById(jobs, poll.job.slurm_job_id) = {}

(***************************************************************************)
(* Independence of a dispatch from the dispatches before it.               *)
(***************************************************************************)
\* the methods, the parameters of each and the notifiers called are the same
\* in the two dispatches out and ref made for one record
SamePolicy(out, ref) ==
    /\ out.methods = ref.methods
    /\ out.sent = ref.sent
    /\ out.methods # <<>> =>
          LET d == CHOOSE r \in jobs : r.rid = out.rid
          IN  \A m \in TagsOf(out.methods) :
                  DictGet(out.catalog[d.task.name].params, m, EmptyDict)
                      = DictGet(ref.catalog[d.task.name].params, m, EmptyDict)

\* C39: the methods and parameters a dispatch for a record works with depend on
\* the record's task and on the catalog as it was initialised only: whatever
\* was dispatched before, for records with whatever policies of their own, the
\* dispatch does what it does in a run where it is the first.
C39_DispatchIndependentOfEarlierOnes ==
    [][\A dbok \in BOOLEAN :
          /\ PollDispatch(dbok) =>
                SamePolicy(
                    process_job_state_change(jobs, TASK_METADATA, poll.job.slurm_job_id,
                                             poll.new_state, dbok),
                    process_job_state_change(jobs, TASK_METADATA_INIT, poll.job.slurm_job_id,
                                             poll.new_state, dbok))
          /\ \A h \in Handlers :
                RegisterNotify(h, dbok) =>
                    SamePolicy(
                        process_job_state_change(jobs, TASK_METADATA, req[h].slurm_job_id,
                                                 req[h].state, dbok),
                        process_job_state_change(jobs, TASK_METADATA_INIT, req[h].slurm_job_id,
                                                 req[h].state, dbok))]_vars

\* the dispatch for a record with a policy of its own has been made, and a tick
\* is about to dispatch for a record of the same task name that has none
C39_Witness ==
    /\ poll.pc = "dispatch"
    /\ poll.job \in jobs
    /\ ~HasKey(poll.job.task, "notification")
    /\ \E d \in jobs :
          /\ HasKey(d.task, "notification")
          /\ d.task.name = poll.job.task.name
          /\ d.rid \in DOMAIN dispatched
    /\ TASK_METADATA # TASK_METADATA_INIT

(***************************************************************************)
(* Properties of the connection singletons.                                *)
(***************************************************************************)
\* C40: however the threads that construct MongoDBConnection (or
\* SSHClientConnection) at the same time interleave, one client is created and
\* no more, and every constructor call returns the one instance with all its
\* attributes set.
C40_OneFullyInitialisedInstance ==
    /\ conn.clients <= 1
    /\ \A t \in ConnThreads :
          conn.pc[t] = "done" => (conn.got[t] = "ready" /\ conn.clients = 1)

\* a constructor call has returned while another thread, holding the lock, has
\* yet to set the instance's last attribute
C40_Witness ==
    \E t, u \in ConnThreads :
        /\ t # u
        /\ conn.pc[t] = "done"
        /\ conn.pc[u] = "db"
        /\ conn.lock = u

====
